---------------------------- MODULE Spec2Model ----------------------------
(***************************************************************************)
(* Model of the type_forge validation core: ValidatorFactory (recursive    *)
(* schema validation), the primitive coercers of BasicValidator, the       *)
(* ValidationResult container and the ConversionResult monad.              *)
(*                                                                         *)
(* Python objects are tagged records; the tag t is the name of the         *)
(* object's class.  A Python str is a sequence of one-character strings,   *)
(* so that parsing, stripping, iteration and formatting are computed.      *)
(* Violation paths and type names are never parsed by the code and are     *)
(* kept as plain strings built by concatenation.                           *)
(***************************************************************************)
EXTENDS Integers, Sequences, FiniteSets, TLC

VARIABLES
    value,             \* the value passed to the validation call
    schema,            \* the schema or accepted type(s) passed to it
    path,              \* the root path passed to it
    convert,           \* its convert flag
    require_all_keys,  \* its require_all_keys flag
    op,                \* the entry point called last, "idle" before any call
    result,            \* what the last call returned or raised
    prior,             \* what the call before it returned
    cr,                \* the ConversionResult of the monad pipeline
    trail,             \* the operations that produced cr, oldest first
    call,              \* the last call on a ConversionResult: its receiver,
                       \* the callbacks it invoked and what an unwrap gave
    args,              \* the arguments of the last call of another function
    ret,               \* what that call returned or raised
    _TYPE_CONVERTERS,  \* the module-level registry of register_converter
    heap,              \* the objects allocated by two concurrent validations
    thread             \* the call stack and the outcome of each of the two

vars == <<value, schema, path, convert, require_all_keys, op, result, prior, cr, trail, call,
          args, ret, _TYPE_CONVERTERS, heap, thread>>

(***************************************************************************)
(* Bounds of the explored inputs.                                          *)
(***************************************************************************)
MaxLen == 2
MaxSteps == 2

(***************************************************************************)
(* Python objects.                                                         *)
(***************************************************************************)
None == [t |-> "NoneType"]
PyBool(b) == [t |-> "bool", b |-> b]
PyInt(i) == [t |-> "int", i |-> i]
\* a finite float is carried in tenths; k is "fin", "inf", "ninf" or "nan"
PyFloat(k, n) == [t |-> "float", k |-> k, n |-> n]
PyStr(s) == [t |-> "str", s |-> s]
PyList(items) == [t |-> "list", items |-> items]
PyTuple(items) == [t |-> "tuple", items |-> items]
\* a dict is its insertion-ordered sequence of <<key, value>> pairs
PyDict(pairs) == [t |-> "dict", pairs |-> pairs]
\* a class object such as int or str
PyType(name) == [t |-> "type", name |-> name]

\* an instance of a user class; each capability (__int__, __float__,
\* __bool__, __str__) is "absent", "ok", or the class of the exception it raises
PyCustom(int_, float_, bool_, str_) ==
    [t |-> "Custom", int |-> int_, float |-> float_, bool |-> bool_, str |-> str_]

\* an exception leaving a call, in place of the object the call would return
Raises(exc) == [t |-> "raise", exc |-> exc]

TypeName(v) == v.t

\* a class is not taken as a subclass of itself
IsSubclass_proper(a, b) == (a = "bool" /\ b = "int") \/ b = "object"

\* issubclass over the built-in classes of the model: bool derives from int
IsSubclass(a, b) == a = b \/ (a = "bool" /\ b = "int") \/ b = "object"

IsInstance(v, typ) == IsSubclass(TypeName(v), typ.name)

IsInstanceAny(v, types) == \E i \in 1..Len(types) : IsInstance(v, types[i])

AllTypes(items) == \A i \in 1..Len(items) : items[i].t = "type"

(***************************************************************************)
(* Strings.                                                                *)
(***************************************************************************)
Digits == <<"0", "1", "2", "3", "4", "5", "6", "7", "8", "9">>

IsDigit(c) == \E d \in 1..10 : Digits[d] = c

DigitVal(c) == (CHOOSE d \in 1..10 : Digits[d] = c) - 1

IsSpace(c) == c \in {" ", "\t", "\n"}

Upper == <<"A", "B", "C", "D", "E", "F", "G", "H", "I", "J", "K", "L", "M",
           "N", "O", "P", "Q", "R", "S", "T", "U", "V", "W", "X", "Y", "Z">>
Lower == <<"a", "b", "c", "d", "e", "f", "g", "h", "i", "j", "k", "l", "m",
           "n", "o", "p", "q", "r", "s", "t", "u", "v", "w", "x", "y", "z">>

LowerChar(c) ==
    IF \E k \in 1..26 : Upper[k] = c
    THEN Lower[CHOOSE k \in 1..26 : Upper[k] = c]
    ELSE c

\* str.lower()
StrLower(s) == [k \in 1..Len(s) |-> LowerChar(s[k])]

RECURSIVE LStrip(_)
LStrip(s) == IF s # <<>> /\ IsSpace(Head(s)) THEN LStrip(Tail(s)) ELSE s

RECURSIVE RStrip(_)
RStrip(s) ==
    IF s # <<>> /\ IsSpace(s[Len(s)]) THEN RStrip(SubSeq(s, 1, Len(s) - 1)) ELSE s

\* str.strip()
StrStrip(s) == RStrip(LStrip(s))

\* the characters of s as one plain string
RECURSIVE Native(_)
Native(s) == IF s = <<>> THEN "" ELSE Head(s) \o Native(Tail(s))

RECURSIVE NatToStr(_)
NatToStr(n) ==
    IF n < 10 THEN <<Digits[n + 1]>> ELSE NatToStr(n \div 10) \o <<Digits[(n % 10) + 1]>>

\* str(i) of an int
IntToStr(i) == IF i < 0 THEN <<"-">> \o NatToStr(0 - i) ELSE NatToStr(i)

\* str(f) of a float
FloatToStr(f) ==
    CASE f.k = "inf" -> <<"i", "n", "f">>
      [] f.k = "ninf" -> <<"-", "i", "n", "f">>
      [] f.k = "nan" -> <<"n", "a", "n">>
      [] OTHER ->
            LET a == IF f.n < 0 THEN 0 - f.n ELSE f.n
            IN (IF f.n < 0 THEN <<"-">> ELSE <<>>)
                 \o NatToStr(a \div 10) \o <<".">> \o NatToStr(a % 10)

RECURSIVE JoinStrs(_, _)
JoinStrs(sep, parts) ==
    IF parts = <<>> THEN <<>>
    ELSE IF Len(parts) = 1 THEN parts[1]
    ELSE parts[1] \o sep \o JoinStrs(sep, Tail(parts))

\* repr(v); str(v) differs from it only for a str
RECURSIVE Repr(_)
Repr(v) ==
    CASE v.t = "NoneType" -> <<"N", "o", "n", "e">>
      [] v.t = "bool" -> IF v.b THEN <<"T", "r", "u", "e">> ELSE <<"F", "a", "l", "s", "e">>
      [] v.t = "int" -> IntToStr(v.i)
      [] v.t = "float" -> FloatToStr(v)
      [] v.t = "str" -> <<"'">> \o v.s \o <<"'">>
      [] v.t = "list" ->
            <<"[">> \o JoinStrs(<<",", " ">>, [k \in 1..Len(v.items) |-> Repr(v.items[k])])
                    \o <<"]">>
      [] v.t = "tuple" ->
            <<"(">> \o JoinStrs(<<",", " ">>, [k \in 1..Len(v.items) |-> Repr(v.items[k])])
                    \o (IF Len(v.items) = 1 THEN <<",">> ELSE <<>>) \o <<")">>
      [] v.t = "dict" ->
            <<"{">> \o JoinStrs(<<",", " ">>,
                           [k \in 1..Len(v.pairs) |->
                               Repr(v.pairs[k][1]) \o <<":", " ">> \o Repr(v.pairs[k][2])])
                    \o <<"}">>
      [] v.t = "type" -> <<"<", "c", "l", "a", "s", "s", " ", "'", v.name, "'", ">">>

\* the built-in str(v)
Str(v) == IF v.t = "str" THEN v.s ELSE Repr(v)

(***************************************************************************)
(* The built-in int() and float() on strings.  A parse yields              *)
(* [ok |-> TRUE, ...] or [ok |-> FALSE] for ValueError.                    *)
(***************************************************************************)
AllDigits(s) == s # <<>> /\ \A k \in 1..Len(s) : IsDigit(s[k])

RECURSIVE DigitsVal(_)
DigitsVal(s) ==
    IF s = <<>> THEN 0 ELSE DigitsVal(SubSeq(s, 1, Len(s) - 1)) * 10 + DigitVal(s[Len(s)])

HasSign(s) == s # <<>> /\ Head(s) \in {"+", "-"}

Unsigned(s) == IF HasSign(s) THEN Tail(s) ELSE s

SignOf(s) == IF s # <<>> /\ Head(s) = "-" THEN 0 - 1 ELSE 1

\* int(s) for a str s
ParseInt(s) ==
    LET b == StrStrip(s)
        u == Unsigned(b)
    IN IF AllDigits(u) THEN [ok |-> TRUE, i |-> SignOf(b) * DigitsVal(u)] ELSE [ok |-> FALSE]

DotPos(s) == IF \E k \in 1..Len(s) : s[k] = "." THEN CHOOSE k \in 1..Len(s) : s[k] = "." ELSE 0

\* float(s) for a str s; the inputs carry at most one fractional digit
ParseFloat(s) ==
    LET b == StrStrip(s)
        u == Unsigned(b)
        w == Native(StrLower(u))
        d == DotPos(u)
        ip == IF d = 0 THEN u ELSE SubSeq(u, 1, d - 1)
        fp == IF d = 0 THEN <<>> ELSE SubSeq(u, d + 1, Len(u))
    IN CASE w \in {"inf", "infinity"} ->
              [ok |-> TRUE, f |-> PyFloat(IF SignOf(b) < 0 THEN "ninf" ELSE "inf", 0)]
         [] w = "nan" -> [ok |-> TRUE, f |-> PyFloat("nan", 0)]
         [] w \notin {"inf", "infinity", "nan"} /\ d = 0 /\ AllDigits(u) ->
              [ok |-> TRUE, f |-> PyFloat("fin", SignOf(b) * DigitsVal(u) * 10)]
         [] w \notin {"inf", "infinity", "nan"} /\ d > 0 /\ (ip # <<>> \/ fp # <<>>)
              /\ (ip = <<>> \/ AllDigits(ip)) /\ (fp = <<>> \/ AllDigits(fp))
              /\ Len(fp) <= 1 ->
              [ok |-> TRUE,
               f |-> PyFloat("fin", SignOf(b) * (DigitsVal(ip) * 10 + DigitsVal(fp)))]
         [] OTHER -> [ok |-> FALSE]

\* int(f) for a float f: truncation toward zero; nan and the infinities fault
FloatToInt(f) ==
    IF f.k # "fin" THEN [ok |-> FALSE]
    ELSE [ok |-> TRUE, i |-> IF f.n < 0 THEN 0 - ((0 - f.n) \div 10) ELSE f.n \div 10]

(***************************************************************************)
(* BasicValidator: the primitive coercers.  They return a Python object;   *)
(* None stands for "no conversion".                                        *)
(***************************************************************************)
\* except (ValueError, TypeError, OverflowError)
CaughtByNumeric == {"ValueError", "TypeError", "OverflowError"}

safe_int_convert(v) ==
    CASE v.t = "NoneType" -> None
      [] v.t = "bool" -> PyInt(IF v.b THEN 1 ELSE 0)
      [] v.t = "int" -> v
      [] v.t = "float" ->
            LET r == FloatToInt(v) IN IF r.ok THEN PyInt(r.i) ELSE None
      [] v.t = "str" ->
            LET r == ParseInt(v.s) IN IF r.ok THEN PyInt(r.i) ELSE None
      [] v.t = "Custom" ->
            IF v.int = "absent" THEN None
            ELSE IF v.int = "ok" THEN PyInt(7)
            ELSE IF v.int \in CaughtByNumeric THEN None
            ELSE Raises(v.int)
      [] OTHER -> None

TrueWords == {"true", "yes", "1", "y", "t", "on"}
FalseWords == {"false", "no", "0", "n", "f", "off"}

\* the string is lower-cased but not stripped
safe_bool_convert_unstripped(v) ==
    CASE v.t = "NoneType" -> PyBool(FALSE)
      [] v.t = "bool" -> v
      [] v.t = "int" -> PyBool(v.i # 0)
      [] v.t = "float" -> PyBool(v.k # "fin" \/ v.n # 0)
      [] v.t = "str" ->
            LET value_lower == StrLower(v.s)
            IN IF Native(value_lower) \in TrueWords THEN PyBool(TRUE)
               ELSE IF Native(value_lower) \in FalseWords THEN PyBool(FALSE)
               ELSE PyBool(value_lower # <<>>)
      [] v.t = "list" -> PyBool(TRUE)
      [] v.t = "tuple" -> PyBool(Len(v.items) # 0)
      [] v.t = "dict" -> PyBool(Len(v.pairs) # 0)
      [] v.t = "Custom" ->
            IF v.bool = "absent" THEN PyBool(TRUE)
            ELSE IF v.bool = "ok" THEN PyBool(FALSE)
            ELSE Raises(v.bool)
      [] OTHER -> PyBool(TRUE)

safe_bool_convert(v) ==
    CASE v.t = "NoneType" -> PyBool(FALSE)
      [] v.t = "bool" -> v
      [] v.t = "int" -> PyBool(v.i # 0)
      [] v.t = "float" -> PyBool(v.k # "fin" \/ v.n # 0)
      [] v.t = "str" ->
            LET value_lower == StrStrip(StrLower(v.s))
            IN IF Native(value_lower) \in TrueWords THEN PyBool(TRUE)
               ELSE IF Native(value_lower) \in FalseWords THEN PyBool(FALSE)
               ELSE PyBool(value_lower # <<>>)
      [] v.t = "list" -> PyBool(TRUE)
      [] v.t = "tuple" -> PyBool(Len(v.items) # 0)
      [] v.t = "dict" -> PyBool(Len(v.pairs) # 0)
      [] v.t = "Custom" ->
            IF v.bool = "absent" THEN PyBool(TRUE)
            ELSE IF v.bool = "ok" THEN PyBool(FALSE)
            ELSE Raises(v.bool)
      [] OTHER -> PyBool(TRUE)

\* an int is handed back without float(value)
safe_float_convert_keeps_int(v) ==
    CASE v.t = "NoneType" -> None
      [] v.t = "bool" -> PyFloat("fin", IF v.b THEN 10 ELSE 0)
      [] v.t = "int" -> v
      [] v.t = "float" -> v
      [] v.t = "str" ->
            LET r == ParseFloat(v.s) IN IF r.ok THEN r.f ELSE None
      [] v.t = "Custom" ->
            IF v.float = "absent" THEN None
            ELSE IF v.float = "ok" THEN PyFloat("fin", 25)
            ELSE IF v.float \in CaughtByNumeric THEN None
            ELSE Raises(v.float)
      [] OTHER -> None

safe_float_convert(v) ==
    CASE v.t = "NoneType" -> None
      [] v.t = "bool" -> PyFloat("fin", IF v.b THEN 10 ELSE 0)
      [] v.t = "int" -> PyFloat("fin", v.i * 10)
      [] v.t = "float" -> v
      [] v.t = "str" ->
            LET r == ParseFloat(v.s) IN IF r.ok THEN r.f ELSE None
      [] v.t = "Custom" ->
            IF v.float = "absent" THEN None
            ELSE IF v.float = "ok" THEN PyFloat("fin", 25)
            ELSE IF v.float \in CaughtByNumeric THEN None
            ELSE Raises(v.float)
      [] OTHER -> None

safe_str_convert(v) ==
    CASE v.t = "NoneType" -> PyStr(<<>>)
      [] v.t = "str" -> v
      [] v.t = "Custom" ->
            IF v.str = "absent" THEN PyStr(<<"<", "Custom", ">">>)
            ELSE IF v.str = "ok" THEN PyStr(<<"o", "b", "j">>)
            ELSE Raises(v.str)
      [] OTHER -> PyStr(Str(v))

(***************************************************************************)
(* Constructors of the container classes, called by _try_convert as        *)
(* target_type(value).  [ok |-> FALSE] stands for TypeError or ValueError. *)
(***************************************************************************)
IsIterable(v) == v.t \in {"str", "list", "tuple", "dict"}

\* the elements iter(v) yields
IterItems(v) ==
    CASE v.t = "str" -> [k \in 1..Len(v.s) |-> PyStr(<<v.s[k]>>)]
      [] v.t = "list" -> v.items
      [] v.t = "tuple" -> v.items
      [] v.t = "dict" -> [k \in 1..Len(v.pairs) |-> v.pairs[k][1]]
      [] OTHER -> <<>>

RECURSIVE IsHashable(_)
IsHashable(v) ==
    CASE v.t \in {"list", "dict"} -> FALSE
      [] v.t = "tuple" -> \A k \in 1..Len(v.items) : IsHashable(v.items[k])
      [] OTHER -> TRUE

\* the numbers that compare equal across bool, int and float, in tenths
IsNumber(v) == v.t \in {"bool", "int"} \/ (v.t = "float" /\ v.k = "fin")

NumberTenths(v) ==
    CASE v.t = "bool" -> IF v.b THEN 10 ELSE 0
      [] v.t = "int" -> v.i * 10
      [] OTHER -> v.n

\* equality of two dict keys
KeyEq(a, b) ==
    IF IsNumber(a) /\ IsNumber(b) THEN NumberTenths(a) = NumberTenths(b) ELSE a = b

HasKey(d, key) == \E k \in 1..Len(d.pairs) : KeyEq(d.pairs[k][1], key)

\* d[key], for a key that d has
GetItem(d, key) == d.pairs[CHOOSE k \in 1..Len(d.pairs) : KeyEq(d.pairs[k][1], key)][2]

\* d[key] = val on the pairs of a dict: an existing key keeps its position
SetItem(pairs, key, val) ==
    IF \E k \in 1..Len(pairs) : KeyEq(pairs[k][1], key)
    THEN [k \in 1..Len(pairs) |->
             IF KeyEq(pairs[k][1], key) THEN <<pairs[k][1], val>> ELSE pairs[k]]
    ELSE Append(pairs, <<key, val>>)

RECURSIVE DictFromItems(_, _)
DictFromItems(items, acc) ==
    IF items = <<>> THEN [ok |-> TRUE, v |-> PyDict(acc)]
    ELSE LET e == Head(items)
         IN IF IsIterable(e) /\ Len(IterItems(e)) = 2 /\ IsHashable(IterItems(e)[1])
            THEN DictFromItems(Tail(items), SetItem(acc, IterItems(e)[1], IterItems(e)[2]))
            ELSE [ok |-> FALSE]

\* target_type(value) for a class that is not int, bool, float or str
Construct(target, v) ==
    CASE target = "list" ->
            IF IsIterable(v) THEN [ok |-> TRUE, v |-> PyList(IterItems(v))] ELSE [ok |-> FALSE]
      [] target = "tuple" ->
            IF IsIterable(v) THEN [ok |-> TRUE, v |-> PyTuple(IterItems(v))] ELSE [ok |-> FALSE]
      [] target = "dict" ->
            IF v.t = "dict" THEN [ok |-> TRUE, v |-> v]
            ELSE IF IsIterable(v) THEN DictFromItems(IterItems(v), <<>>)
            ELSE [ok |-> FALSE]
      [] target = "type" -> [ok |-> TRUE, v |-> PyType(TypeName(v))]
      [] OTHER -> [ok |-> FALSE]

(***************************************************************************)
(* ValidationResult and TypeViolation.                                     *)
(***************************************************************************)
TypeViolation(p, expected, found, kind) ==
    [path |-> p, expected |-> expected, found |-> found, kind |-> kind]

\* raised is "" for a returned result and the exception's class for a raise
ValidationResult(valid, violations, converted_value) ==
    [raised |-> "", valid |-> valid, violations |-> violations,
     converted_value |-> converted_value]

Raised(exc) ==
    [raised |-> exc, valid |-> FALSE, violations |-> <<>>, converted_value |-> None]

\* the violations of the other result are not taken over
merge_keeps_own_violations(self, other) ==
    [self EXCEPT !.valid = IF ~other.valid THEN FALSE ELSE self.valid]

\* a converted value of the other result replaces the receiver's
merge_adopts_converted_value(self, other) ==
    [self EXCEPT !.valid = IF ~other.valid THEN FALSE ELSE self.valid,
                 !.violations = self.violations \o other.violations,
                 !.converted_value = IF other.converted_value # None
                                     THEN other.converted_value ELSE @]

\* the valid flag of the other result replaces the receiver's
merge_overwrites_valid(self, other) ==
    [self EXCEPT !.valid = other.valid,
                 !.violations = self.violations \o other.violations]

merge(self, other) ==
    [self EXCEPT !.valid = IF ~other.valid THEN FALSE ELSE self.valid,
                 !.violations = self.violations \o other.violations]

\* self.merge(other) on the objects of a store: self is updated in place
\* and returned, by its position
merge_in_place(objects, self, other) ==
    [objects |-> [objects EXCEPT ![self] = merge(objects[self], objects[other])],
     returned |-> self]

(***************************************************************************)
(* ValidatorFactory.                                                       *)
(***************************************************************************)
\* except Exception: return None
Caught(converted) == IF converted.t = "raise" THEN None ELSE converted

_try_convert(v, target_type) ==
    CASE target_type.name = "int" -> Caught(safe_int_convert(v))
      [] target_type.name = "bool" -> Caught(safe_bool_convert(v))
      [] target_type.name = "float" -> Caught(safe_float_convert(v))
      [] target_type.name = "str" -> Caught(safe_str_convert(v))
      [] OTHER ->
            IF ~IsInstance(v, target_type)
            THEN LET r == Construct(target_type.name, v) IN IF r.ok THEN r.v ELSE None
            ELSE None

\* ", ".join(t.__name__ for t in normalized_types)
RECURSIVE JoinNames(_, _)
JoinNames(sep, types) ==
    IF types = <<>> THEN ""
    ELSE IF Len(types) = 1 THEN types[1].name
    ELSE types[1].name \o sep \o JoinNames(sep, Tail(types))

\* the accepted types are tried last to first
RECURSIVE ConvertLast(_, _)
ConvertLast(v, types) ==
    IF types = <<>> THEN None
    ELSE IF types[Len(types)].name = "NoneType"
    THEN ConvertLast(v, SubSeq(types, 1, Len(types) - 1))
    ELSE LET converted == _try_convert(v, types[Len(types)])
         IN IF converted # None THEN converted
            ELSE ConvertLast(v, SubSeq(types, 1, Len(types) - 1))

\* only the first accepted type is tried
ConvertFirst_only_head(v, types) ==
    IF types = <<>> \/ Head(types).name = "NoneType" THEN None
    ELSE _try_convert(v, Head(types))

\* the conversion loop of validate_type over the accepted types, in order
RECURSIVE ConvertFirst(_, _)
ConvertFirst(v, types) ==
    IF types = <<>> THEN None
    ELSE IF Head(types).name = "NoneType" THEN ConvertFirst(v, Tail(types))
    ELSE LET converted == _try_convert(v, Head(types))
         IN IF converted # None THEN converted ELSE ConvertFirst(v, Tail(types))

NormalizedTypes(expected_type) ==
    IF expected_type.t = "type" THEN <<expected_type>> ELSE expected_type.items

\* None is handed to the coercers like any other value
validate_type_coerces_none(v, expected_type, p, conv) ==
    LET normalized_types == NormalizedTypes(expected_type)
        type_names == JoinNames(", ", normalized_types)
    IN IF IsInstanceAny(v, normalized_types)
       THEN ValidationResult(TRUE, <<>>, v)
       ELSE IF conv /\ ConvertFirst(v, normalized_types) # None
       THEN ValidationResult(TRUE, <<>>, ConvertFirst(v, normalized_types))
       ELSE ValidationResult(FALSE,
               <<TypeViolation(p, type_names, IF v = None THEN "None" ELSE TypeName(v),
                               "wrong_type")>>, None)

validate_type(v, expected_type, p, conv) ==
    LET normalized_types == NormalizedTypes(expected_type)
        type_names == JoinNames(", ", normalized_types)
    IN IF v = None
       THEN IF \E k \in 1..Len(normalized_types) : normalized_types[k].name = "NoneType"
            THEN ValidationResult(TRUE, <<>>, None)
            ELSE ValidationResult(FALSE,
                    <<TypeViolation(p, type_names, "None", "wrong_type")>>, None)
       ELSE IF IsInstanceAny(v, normalized_types)
       THEN ValidationResult(TRUE, <<>>, v)
       ELSE IF conv /\ ConvertFirst(v, normalized_types) # None
       THEN ValidationResult(TRUE, <<>>, ConvertFirst(v, normalized_types))
       ELSE ValidationResult(FALSE,
               <<TypeViolation(p, type_names, TypeName(v), "wrong_type")>>, None)

\* " | ".join(t.__name__ for t in typ)
_get_type_name(typ) ==
    CASE typ.t = "type" -> typ.name
      [] typ.t = "tuple" /\ AllTypes(typ.items) -> JoinNames(" | ", typ.items)
      [] typ.t \in {"list", "tuple"} /\ ~(typ.t = "tuple" /\ AllTypes(typ.items)) ->
            IF Len(typ.items) > 0
            THEN IF typ.items[1].t = "type"
                 THEN "List[" \o typ.items[1].name \o "]"
                 ELSE "List[Dict]"
            ELSE "List"
      [] typ.t = "dict" -> "Dict[str]"
      [] OTHER -> Native(Str(typ))

\* f"{path}.{key}"
KeyPath(p, key) == p \o "." \o Native(Str(key))

\* the index is written one-based
ItemPath_one_based(p, i) == p \o "[" \o Native(IntToStr(i + 1)) \o "]"

\* f"{path}[{i}]"
ItemPath(p, i) == p \o "[" \o Native(IntToStr(i)) \o "]"

\* the MISSING_KEY violations of validate_dict, in the schema's key order
RECURSIVE MissingKeyViolations(_, _, _)
MissingKeyViolations(dict_value, pairs, p) ==
    IF pairs = <<>> THEN <<>>
    ELSE (IF HasKey(dict_value, Head(pairs)[1]) THEN <<>>
          ELSE <<TypeViolation(KeyPath(p, Head(pairs)[1]), _get_type_name(Head(pairs)[2]),
                               "missing", "missing_key")>>)
         \o MissingKeyViolations(dict_value, Tail(pairs), p)

\* the schema's class is not checked
IsSchemaObject_unchecked(sch) == TRUE

\* isinstance(schema, (dict, list, tuple, type))
IsSchemaObject(sch) == sch.t \in {"dict", "list", "tuple", "type"}

RECURSIVE validate_recursive(_, _, _, _)
RECURSIVE ValidateKeys(_, _, _, _, _)
RECURSIVE ValidateItems(_, _, _, _, _, _)

\* the loop of validate_dict over schema.items(); a raise of a nested call
\* leaves the loop
ValidateKeys(dict_value, pairs, p, conv, acc) ==
    IF pairs = <<>> THEN acc
    ELSE LET key == Head(pairs)[1]
             expected_type == Head(pairs)[2]
         IN IF ~HasKey(dict_value, key)
            THEN ValidateKeys(dict_value, Tail(pairs), p, conv, acc)
            ELSE LET key_result ==
                         validate_recursive(GetItem(dict_value, key), expected_type,
                                            KeyPath(p, key), conv)
                     stored ==
                         IF key_result.valid /\ key_result.converted_value # None
                         THEN key_result.converted_value
                         ELSE GetItem(dict_value, key)
                     result_dict == PyDict(SetItem(acc.converted_value.pairs, key, stored))
                 IN IF key_result.raised # "" THEN key_result
                    ELSE ValidateKeys(dict_value, Tail(pairs), p, conv,
                            merge([acc EXCEPT !.converted_value = result_dict], key_result))

\* a missing key ends the call before the present keys are validated
validate_dict_short_circuit(v, sch, p, conv, req) ==
    IF v.t # "dict"
    THEN ValidationResult(FALSE, <<TypeViolation(p, "dict", TypeName(v), "wrong_type")>>, None)
    ELSE LET missing == IF req THEN MissingKeyViolations(v, sch.pairs, p) ELSE <<>>
         IN IF missing # <<>>
            THEN ValidationResult(FALSE, missing, PyDict(<<>>))
            ELSE ValidateKeys(v, sch.pairs, p, conv, ValidationResult(TRUE, <<>>, PyDict(<<>>)))

\* a missing key is reported also when the keys are not required
validate_dict_reports_optional(v, sch, p, conv, req) ==
    IF v.t # "dict"
    THEN ValidationResult(FALSE, <<TypeViolation(p, "dict", TypeName(v), "wrong_type")>>, None)
    ELSE LET missing == MissingKeyViolations(v, sch.pairs, p)
         IN ValidateKeys(v, sch.pairs, p, conv,
                         ValidationResult(~(req /\ missing # <<>>), missing, PyDict(<<>>)))

\* the missing keys are reported after the present keys are validated
validate_dict_missing_last(v, sch, p, conv, req) ==
    IF v.t # "dict"
    THEN ValidationResult(FALSE, <<TypeViolation(p, "dict", TypeName(v), "wrong_type")>>, None)
    ELSE LET missing == IF req THEN MissingKeyViolations(v, sch.pairs, p) ELSE <<>>
             present == ValidateKeys(v, sch.pairs, p, conv,
                                     ValidationResult(TRUE, <<>>, PyDict(<<>>)))
         IN IF present.raised # "" THEN present
            ELSE [present EXCEPT !.valid = @ /\ missing = <<>>,
                                 !.violations = @ \o missing]

validate_dict(v, sch, p, conv, req) ==
    IF v.t # "dict"
    THEN ValidationResult(FALSE, <<TypeViolation(p, "dict", TypeName(v), "wrong_type")>>, None)
    ELSE LET missing == IF req THEN MissingKeyViolations(v, sch.pairs, p) ELSE <<>>
         IN ValidateKeys(v, sch.pairs, p, conv,
                         ValidationResult(missing = <<>>, missing, PyDict(<<>>)))

\* each element is put in front of result_list
RECURSIVE ValidateItems_newest_first(_, _, _, _, _, _)
ValidateItems_newest_first(items, element_schema, p, conv, i, acc) ==
    IF items = <<>>
    THEN ValidationResult(acc.valid, acc.violations,
                          IF acc.valid THEN PyList(acc.result_list) ELSE PyList(<<>>))
    ELSE LET item == Head(items)
             item_result == validate_recursive(item, element_schema, ItemPath(p, i), conv)
             kept == IF item_result.valid /\ item_result.converted_value # None
                     THEN item_result.converted_value
                     ELSE item
         IN IF item_result.raised # "" THEN item_result
            ELSE ValidateItems_newest_first(Tail(items), element_schema, p, conv, i + 1,
                    [valid |-> acc.valid /\ item_result.valid,
                     violations |-> IF item_result.valid THEN acc.violations
                                    ELSE acc.violations \o item_result.violations,
                     result_list |-> <<kept>> \o acc.result_list])

\* the loop of validate_recursive over enumerate(sequence_value); i is the
\* zero-based index of Head(items); acc holds result and result_list
ValidateItems(items, element_schema, p, conv, i, acc) ==
    IF items = <<>>
    THEN ValidationResult(acc.valid, acc.violations,
                          IF acc.valid THEN PyList(acc.result_list) ELSE PyList(<<>>))
    ELSE LET item == Head(items)
             item_result == validate_recursive(item, element_schema, ItemPath(p, i), conv)
             kept == IF item_result.valid /\ item_result.converted_value # None
                     THEN item_result.converted_value
                     ELSE item
         IN IF item_result.raised # "" THEN item_result
            ELSE ValidateItems(Tail(items), element_schema, p, conv, i + 1,
                    [valid |-> acc.valid /\ item_result.valid,
                     violations |-> IF item_result.valid THEN acc.violations
                                    ELSE acc.violations \o item_result.violations,
                     result_list |-> Append(acc.result_list, kept)])

validate_recursive(v, sch, p, conv) ==
    IF ~IsSchemaObject(sch)
    THEN Raised("TypeError")
    ELSE IF sch.t = "tuple" /\ AllTypes(sch.items)
    THEN validate_type(v, sch, p, conv)
    ELSE IF sch.t = "dict"
    THEN IF v.t # "dict"
         THEN ValidationResult(FALSE,
                 <<TypeViolation(p, "dict", TypeName(v), "wrong_type")>>, None)
         ELSE validate_dict(v, sch, p, conv, TRUE)
    ELSE IF sch.t \in {"list", "tuple"} /\ Len(sch.items) > 0
    THEN IF v.t \notin {"list", "tuple"}
         THEN ValidationResult(FALSE,
                 <<TypeViolation(p, "list or tuple", TypeName(v), "wrong_type")>>, None)
         ELSE ValidateItems(v.items, sch.items[1], p, conv, 0,
                            [valid |-> TRUE, violations |-> <<>>, result_list |-> <<>>])
    ELSE IF sch.t = "type"
    THEN validate_type(v, sch, p, conv)
    ELSE ValidationResult(FALSE,
            <<TypeViolation(p, "valid schema", "invalid schema: " \o TypeName(sch),
                            "schema_mismatch")>>, None)

(***************************************************************************)
(* TypeRelationshipAnalyzer.                                               *)
(***************************************************************************)
CollectionTypes == {"list", "tuple", "set", "frozenset", "dict"}
PrimitiveTypes == {"int", "float", "bool", "str", "bytes"}
NumericTypes == {"int", "float", "complex"}

Infinity == 1000000

\* a str target is taken as convertible from any source
get_relationship_any_to_str(source_type, target_type) ==
    IF source_type = target_type THEN "identical"
    ELSE IF IsSubclass(source_type, target_type) THEN "subtype"
    ELSE IF IsSubclass(target_type, source_type) THEN "supertype"
    ELSE IF source_type \in PrimitiveTypes /\ target_type \in PrimitiveTypes
            /\ source_type \in NumericTypes /\ target_type \in NumericTypes
    THEN "implicit_convertible"
    ELSE IF target_type = "str"
    THEN "convertible"
    ELSE IF source_type \in PrimitiveTypes /\ target_type \in PrimitiveTypes
            /\ source_type = "str" /\ target_type \in NumericTypes
    THEN "convertible"
    ELSE IF source_type \in CollectionTypes /\ target_type \in CollectionTypes
    THEN "container_compatible"
    ELSE "incompatible"

get_relationship(source_type, target_type) ==
    IF source_type = target_type THEN "identical"
    ELSE IF IsSubclass(source_type, target_type) THEN "subtype"
    ELSE IF IsSubclass(target_type, source_type) THEN "supertype"
    ELSE IF source_type \in PrimitiveTypes /\ target_type \in PrimitiveTypes
            /\ source_type \in NumericTypes /\ target_type \in NumericTypes
    THEN "implicit_convertible"
    ELSE IF source_type \in PrimitiveTypes /\ target_type \in PrimitiveTypes
            /\ target_type = "str"
    THEN "convertible"
    ELSE IF source_type \in PrimitiveTypes /\ target_type \in PrimitiveTypes
            /\ source_type = "str" /\ target_type \in NumericTypes
    THEN "convertible"
    ELSE IF source_type \in CollectionTypes /\ target_type \in CollectionTypes
    THEN "container_compatible"
    ELSE "incompatible"

get_conversion_distance(source_type, target_type) ==
    LET relationship == get_relationship(source_type, target_type)
    IN CASE relationship = "identical" -> 0
         [] relationship = "subtype" -> 1
         [] relationship = "supertype" -> 2
         [] relationship = "implicit_convertible" -> 3
         [] relationship = "convertible" -> 5
         [] relationship = "container_compatible" -> 7
         [] relationship = "structurally_compatible" -> 10
         [] relationship = "protocol_compatible" -> 15
         [] OTHER -> Infinity

\* TypeCompatibility.is_compatible
is_compatible(relationship) == relationship # "incompatible"

is_convertible(source_type, target_type) ==
    is_compatible(get_relationship(source_type, target_type))

\* inspect.getmro(t).  A, B and E(A) are user classes, C(A, B) and D(B, A)
\* inherit from both A and B
Mro(t) ==
    CASE t = "object" -> <<"object">>
      [] t = "bool" -> <<"bool", "int", "object">>
      [] t = "C" -> <<"C", "A", "B", "object">>
      [] t = "D" -> <<"D", "B", "A", "object">>
      [] t = "E" -> <<"E", "A", "object">>
      [] OTHER -> <<t, "object">>

\* the loop of find_common_supertype over types[1:]
RECURSIVE CommonMro(_, _)
CommonMro(common_mro, rest) ==
    IF rest = <<>> THEN common_mro
    ELSE LET t_mro == Mro(Head(rest))
         IN CommonMro(SelectSeq(common_mro,
                                LAMBDA cls : \E j \in 1..Len(t_mro) : t_mro[j] = cls),
                      Tail(rest))

find_common_supertype(types) ==
    IF types = <<>> THEN None
    ELSE LET common_mro == CommonMro(Mro(types[1]), Tail(types))
         IN IF Len(common_mro) = 1 /\ common_mro[1] = "object" THEN None
            ELSE PyType(common_mro[1])

(***************************************************************************)
(* ConversionResult.  error is <<>> for None and <<msg>> for a message;    *)
(* raised is "" for a result and the exception's class when a call let an  *)
(* exception of its callback escape.                                       *)
(***************************************************************************)
NoError == <<>>

ConversionResult(success, val, error) ==
    [raised |-> "", success |-> success, value |-> val, error |-> error]

Escaped(exc) == [raised |-> exc, success |-> FALSE, value |-> None, error |-> NoError]

NoConversion == Escaped("no call")

create_success(val) == ConversionResult(TRUE, val, NoError)

failure(msg) == ConversionResult(FALSE, None, <<msg>>)

\* The callbacks handed to the monad.  A call yields [ok |-> TRUE, v |-> ...]
\* or, when the callback faults, [ok |-> FALSE, msg |-> str(e)].
Returned(v) == [ok |-> TRUE, v |-> v]
Faulted(msg) == [ok |-> FALSE, msg |-> msg]

Suppliers == {"answer", "none", "fault"}

CallSupplier(f) ==
    CASE f = "answer" -> Returned(PyStr(<<"4", "2">>))
      [] f = "none" -> Returned(None)
      [] OTHER -> Faulted("invalid literal")

Transforms == {"increment", "to_str", "to_none", "fault"}

CallTransform(f, x) ==
    CASE f = "increment" ->
            IF x.t = "int" THEN Returned(PyInt(x.i + 1))
            ELSE IF x.t = "bool" THEN Returned(PyInt((IF x.b THEN 1 ELSE 0) + 1))
            ELSE IF x.t = "float" /\ x.k = "fin" THEN Returned(PyFloat("fin", x.n + 10))
            ELSE IF x.t = "float" THEN Returned(x)
            ELSE Faulted("unsupported operand")
      [] f = "to_str" -> Returned(PyStr(Str(x)))
      [] f = "to_none" -> Returned(None)
      [] OTHER -> Faulted("boom")

Converters == {"parse_int", "reject", "wrap_none", "fault"}

\* a converter returns a ConversionResult, or faults
CallConverter(f, x) ==
    CASE f = "parse_int" ->
            Returned(IF safe_int_convert(x) # None
                     THEN create_success(safe_int_convert(x))
                     ELSE failure("not an integer"))
      [] f = "reject" -> Returned(failure("rejected"))
      [] f = "wrap_none" -> Returned(create_success(None))
      [] OTHER -> Faulted("boom")

Recoveries == {"zero", "none", "classify", "fault"}

\* classify is lambda e: 0 if e == "" else 1 if e == "bad input" else 2
CallRecovery(f, error_msg) ==
    CASE f = "zero" -> Returned(PyInt(0))
      [] f = "none" -> Returned(None)
      [] f = "classify" ->
            Returned(PyInt(IF error_msg = "" THEN 0 ELSE IF error_msg = "bad input" THEN 1 ELSE 2))
      [] OTHER -> Faulted("boom")

from_try(func) ==
    LET r == CallSupplier(func)
    IN IF r.ok THEN create_success(r.v) ELSE failure(r.msg)

then(self, converter) ==
    IF ~self.success THEN self
    ELSE IF self.value = None
    THEN ConversionResult(FALSE, None, <<"Value is None despite successful status">>)
    ELSE LET r == CallConverter(converter, self.value)
         IN IF r.ok THEN r.v ELSE Escaped("ValueError")

map(self, transform) ==
    IF ~self.success THEN self
    ELSE IF self.value = None
    THEN ConversionResult(FALSE, None, <<"Value is None despite successful status">>)
    ELSE LET r == CallTransform(transform, self.value)
         IN IF r.ok THEN create_success(r.v)
            ELSE failure("Transformation error: " \o r.msg)

\* the recovery function receives the stored error as it is, even when empty
recover_raw_error(self, recovery_func) ==
    IF self.success THEN self
    ELSE LET r == CallRecovery(recovery_func, self.error[1])
         IN IF r.ok THEN create_success(r.v)
            ELSE failure("Recovery failed: " \o r.msg)

recover(self, recovery_func) ==
    IF self.success THEN self
    ELSE LET error_msg == IF self.error = NoError \/ self.error = <<"">>
                          THEN "Unknown error" ELSE self.error[1]
             r == CallRecovery(recovery_func, error_msg)
         IN IF r.ok THEN create_success(r.v)
            ELSE failure("Recovery failed: " \o r.msg)

\* What an unwrapping call gives: the value it returns, or the exception
\* it raises with its message.
NoOutcome == [kind |-> "none", v |-> None, exc |-> "", msg |-> ""]
Gave(v) == [kind |-> "returned", v |-> v, exc |-> "", msg |-> ""]
Threw(exc, msg) == [kind |-> "raised", v |-> None, exc |-> exc, msg |-> msg]

or_else(self, default_value) ==
    Gave(IF self.success /\ self.value # None THEN self.value ELSE default_value)

or_else_get(self, provider) ==
    IF self.success /\ self.value # None THEN Gave(self.value)
    ELSE LET r == CallSupplier(provider)
         IN IF r.ok THEN Gave(r.v) ELSE Threw("ValueError", r.msg)

\* the exception classes handed to or_raise as exception_factory
Factories == {"ValueError", "RuntimeError"}

or_raise(self, exception_factory) ==
    IF ~self.success
    THEN Threw(exception_factory,
               IF self.error = NoError \/ self.error = <<"">>
               THEN "Conversion failed" ELSE self.error[1])
    ELSE IF self.value = None
    THEN Threw(exception_factory, "Value is None despite successful status")
    ELSE Gave(self.value)

\* f"{e.__class__.__name__}: {str(e)}" for the TypeError of target_type(value)
ConstructError(target, v) ==
    IF target = "NoneType" THEN "TypeError: NoneType takes no arguments"
    ELSE "TypeError: '" \o TypeName(v) \o "' object is not iterable"

\* module-level try_convert(value, target_type); it does not read
\* _TYPE_CONVERTERS
try_convert(v, target_type) ==
    IF v = None /\ target_type.name # "NoneType"
    THEN ConversionResult(FALSE, None, <<"Cannot convert None to non-None type">>)
    ELSE IF IsInstance(v, target_type)
    THEN ConversionResult(TRUE, v, NoError)
    ELSE CASE target_type.name = "int" ->
                 LET r == safe_int_convert(v)
                 IN IF r.t = "raise" THEN ConversionResult(FALSE, None, <<r.exc \o ": ">>)
                    ELSE IF r # None THEN ConversionResult(TRUE, r, NoError)
                    ELSE ConversionResult(FALSE, None,
                            <<"Cannot convert " \o TypeName(v) \o " to int">>)
           [] target_type.name = "bool" ->
                 LET r == safe_bool_convert(v)
                 IN IF r.t = "raise" THEN ConversionResult(FALSE, None, <<r.exc \o ": ">>)
                    ELSE ConversionResult(TRUE, r, NoError)
           [] target_type.name = "float" ->
                 LET r == safe_float_convert(v)
                 IN IF r.t = "raise" THEN ConversionResult(FALSE, None, <<r.exc \o ": ">>)
                    ELSE IF r # None THEN ConversionResult(TRUE, r, NoError)
                    ELSE ConversionResult(FALSE, None,
                            <<"Cannot convert " \o TypeName(v) \o " to float">>)
           [] target_type.name = "str" ->
                 LET r == safe_str_convert(v)
                 IN IF r.t = "raise" THEN ConversionResult(FALSE, None, <<r.exc \o ": ">>)
                    ELSE ConversionResult(TRUE, r, NoError)
           [] OTHER ->
                 LET r == Construct(target_type.name, v)
                 IN IF r.ok THEN ConversionResult(TRUE, r.v, NoError)
                    ELSE ConversionResult(FALSE, None, <<ConstructError(target_type.name, v)>>)

\* _TYPE_CONVERTERS[target_type] = converter
register_converter(registry, target_type, converter) ==
    [t \in DOMAIN registry \cup {target_type.name} |->
        IF t = target_type.name THEN converter ELSE registry[t]]

\* The callbacks a call invokes, with their arguments, in order.
Invocation(f, x) == [f |-> f, x |-> x]

from_try_calls(func) == <<Invocation(func, <<>>)>>

then_calls(self, converter) ==
    IF self.success /\ self.value # None THEN <<Invocation(converter, self.value)>> ELSE <<>>

map_calls(self, transform) ==
    IF self.success /\ self.value # None THEN <<Invocation(transform, self.value)>> ELSE <<>>

recover_calls(self, recovery_func) ==
    IF self.success THEN <<>>
    ELSE <<Invocation(recovery_func,
                      IF self.error = NoError \/ self.error = <<"">>
                      THEN "Unknown error" ELSE self.error[1])>>

or_else_get_calls(self, provider) ==
    IF self.success /\ self.value # None THEN <<>> ELSE <<Invocation(provider, <<>>)>>

\* A call on a ConversionResult: receiver, invocations, unwrap outcome.
Call(self, invoked, out) == [self |-> self, invoked |-> invoked, out |-> out]

NoCall == Call(NoConversion, <<>>, NoOutcome)

(***************************************************************************)
(* TypeForge: the public entry points over ValidatorFactory.               *)
(***************************************************************************)
validate_dict_schema(data, sch, conv, req) == validate_dict(data, sch, "$", conv, req)

validate_and_convert(v, target_type, p) == validate_type(v, target_type, p, TRUE)

check_type(v, expected_type) == validate_type(v, expected_type, "$", FALSE).valid

\* str(violation): the pieces of its f-string, in order
ViolationText(violation) ==
    <<"At path '", violation.path, "': Expected ", violation.expected,
      ", found ", violation.found, " (", violation.kind, ")">>

\* "\n".join(str(v) for v in result.violations), as pieces
RECURSIVE JoinLines(_)
JoinLines(violations) ==
    IF violations = <<>> THEN <<>>
    ELSE IF Len(violations) = 1 THEN ViolationText(violations[1])
    ELSE ViolationText(violations[1]) \o <<"\n">> \o JoinLines(Tail(violations))

\* the value is validated with conversion and the converted value returned
assert_type_converting(v, expected_type, message) ==
    LET result_ == validate_type(v, expected_type, "$", TRUE)
    IN IF ~result_.valid
       THEN IF message # None /\ message.s # <<>>
            THEN Threw("TypeError", <<Native(message.s)>>)
            ELSE Threw("TypeError",
                       <<"Type assertion failed: ">> \o JoinLines(result_.violations))
       ELSE Gave(result_.converted_value)

\* message is None or a str; the text of the TypeError is kept as its pieces
assert_type(v, expected_type, message) ==
    LET result_ == validate_type(v, expected_type, "$", FALSE)
        error_msg == IF message # None THEN message.s ELSE <<>>
    IN IF ~result_.valid
       THEN IF error_msg # <<>>
            THEN Threw("TypeError", <<Native(error_msg)>>)
            ELSE Threw("TypeError",
                       <<"Type assertion failed: ">> \o JoinLines(result_.violations))
       ELSE Gave(v)

(***************************************************************************)
(* validate_recursive and validate_dict step by step, for two threads that *)
(* run them at once.  Every list, dict and ValidationResult a call creates *)
(* is an object of the heap; heap[t] holds the objects thread t allocated, *)
(* and a reference names the allocating thread and the position.  Each     *)
(* object records the threads that read or wrote it.                       *)
(***************************************************************************)
Threads == {1, 2}

Ref(owner, id) == [t |-> "ref", owner |-> owner, id |-> id]

NoRef == Ref(0, 0)

Deref(h, r) == h[r.owner][r.id]

ListObject(items, t) == [kind |-> "list", items |-> items, touched |-> {t}]

DictObject(pairs, t) == [kind |-> "dict", pairs |-> pairs, touched |-> {t}]

ResultObject(valid, violations, converted_value, t) ==
    [kind |-> "result", valid |-> valid, violations |-> violations,
     converted_value |-> converted_value, touched |-> {t}]

\* every new list shares the first list any call created
NewList_shared(h, t) == Ref(1, 1)

\* the object a list display [] or a constructor call creates
NewList(h, t) == Ref(t, Len(h[t]) + 1)

NewObject(h, t) == Ref(t, Len(h[t]) + 1)

\* binds r to obj: a reference past the end of its arena is a new object
Store(h, r, obj) ==
    [h EXCEPT ![r.owner] = IF r.id > Len(@) THEN Append(@, obj) ELSE [@ EXCEPT ![r.id] = obj]]

\* the list r after thread t appended items to it; a new list starts empty
Extended(h, r, items, t) ==
    IF r.id > Len(h[r.owner]) THEN Store(h, r, ListObject(items, t))
    ELSE Store(h, r, [Deref(h, r) EXCEPT !.items = @ \o items, !.touched = @ \cup {t}])

\* thread t reads the object r
Read(h, r, t) == Store(h, r, [Deref(h, r) EXCEPT !.touched = @ \cup {t}])

\* a stack frame of validate_recursive, or of the validate_dict it calls:
\* res is its result, out its result_list or result_dict, i the position of
\* its loop and got the result its last nested call returned
Frame(pc, v, sch, p) ==
    [pc |-> pc, v |-> v, sch |-> sch, p |-> p, res |-> NoRef, out |-> NoRef, i |-> 1,
     got |-> NoRef]

Idle == [stack |-> <<>>, status |-> "idle", result |-> NoRef]

Top(t) == thread[t].stack[Len(thread[t].stack)]

Running(t, pc) == thread[t].status = "running" /\ Top(t).pc = pc

\* the thread after its top frame returned ref
ReturnTo(stack, ref) ==
    LET rest == SubSeq(stack, 1, Len(stack) - 1)
    IN IF rest = <<>> THEN [stack |-> <<>>, status |-> "done", result |-> ref]
       ELSE [stack |-> [rest EXCEPT ![Len(rest)].got = ref], status |-> "running",
             result |-> NoRef]

\* the thread after its top frame became f
Replaced(stack, f) ==
    [stack |-> [stack EXCEPT ![Len(stack)] = f], status |-> "running", result |-> NoRef]

\* the thread after its top frame became f and called validate_recursive
Called(stack, f, v, sch, p) ==
    [stack |-> Append([stack EXCEPT ![Len(stack)] = f], Frame("enter", v, sch, p)),
     status |-> "running", result |-> NoRef]

EntersDict(v, sch) == sch.t = "dict" /\ v.t = "dict"

EntersSequence(v, sch) ==
    /\ sch.t \in {"list", "tuple"} /\ ~(sch.t = "tuple" /\ AllTypes(sch.items))
    /\ Len(sch.items) > 0
    /\ v.t \in {"list", "tuple"}

\* the value a container holds, a nested container it refers to followed
RECURSIVE Materialize(_, _)
Materialize(h, x) ==
    IF x.t # "ref" THEN x
    ELSE LET o == Deref(h, x)
         IN IF o.kind = "list"
            THEN PyList([k \in 1..Len(o.items) |-> Materialize(h, o.items[k])])
            ELSE PyDict([k \in 1..Len(o.pairs) |->
                            <<o.pairs[k][1], Materialize(h, o.pairs[k][2])>>])

\* what the call of thread t returned or raised
Outcome(h, t) ==
    IF thread[t].status = "raised" THEN Raised("TypeError")
    ELSE LET o == Deref(h, thread[t].result)
         IN ValidationResult(o.valid, Deref(h, o.violations).items,
                             Materialize(h, o.converted_value))

\* the objects a container refers to, itself included
RECURSIVE Contained(_, _)
Contained(h, x) ==
    IF x.t # "ref" THEN {}
    ELSE LET o == Deref(h, x)
         IN {x} \cup (IF o.kind = "list"
                      THEN UNION {Contained(h, o.items[k]) : k \in 1..Len(o.items)}
                      ELSE UNION {Contained(h, o.pairs[k][2]) : k \in 1..Len(o.pairs)})

\* the result of thread t, its violation list and its containers
Objects(h, t) ==
    IF thread[t].status # "done" THEN {}
    ELSE LET o == Deref(h, thread[t].result)
         IN {thread[t].result, o.violations} \cup Contained(h, o.converted_value)

(***************************************************************************)
(* The explored inputs: Python values and schemas.                         *)
(***************************************************************************)
SeqsUpTo(S, n) == UNION {[1..k -> S] : k \in 0..n}

K_name == PyStr(<<"n", "a", "m", "e">>)
K_age == PyStr(<<"a", "g", "e">>)
K_user == PyStr(<<"u", "s", "e", "r">>)
K_scores == PyStr(<<"s", "c", "o", "r", "e", "s">>)

StrInputs ==
    {<<"4", "2">>, <<"a", "b", "c">>, <<>>, <<"Y", "e", "s">>, <<"o", "f", "f">>,
     <<"1", ".", "5">>, <<" ", "-", "7", " ">>, <<"n", "a", "n">>, <<"J", "o", "h", "n">>}

Atoms ==
    {None, PyBool(TRUE), PyBool(FALSE), PyInt(0), PyInt(1), PyInt(30),
     PyFloat("fin", 15), PyFloat("fin", 0 - 20), PyFloat("inf", 0)}
      \cup {PyStr(s) : s \in StrInputs}

\* the values found inside containers
NestAtoms == {PyInt(30), PyStr(<<"3", "0">>), PyStr(<<"J", "o", "h", "n">>), None}

\* the dicts whose keys are a subsequence of keys, with values from S
RECURSIVE DictPairs(_, _)
DictPairs(keys, S) ==
    IF keys = <<>> THEN {<<>>}
    ELSE LET rest == DictPairs(Tail(keys), S)
         IN rest \cup {<<<<Head(keys), x>>>> \o r : x \in S, r \in rest}

DictsOver(keys, S) == {PyDict(ps) : ps \in DictPairs(keys, S)}

ListValues == {PyList(items) : items \in SeqsUpTo(NestAtoms, MaxLen)}
TupleValues == {PyTuple(items) : items \in SeqsUpTo({PyInt(30), PyStr(<<"3", "0">>)}, MaxLen)}
PersonValues == DictsOver(<<K_name, K_age>>, NestAtoms)
AgeValues == DictsOver(<<K_age>>, NestAtoms)

NestedValues ==
    DictsOver(<<K_user>>, PersonValues \cup {PyInt(30)})
      \cup DictsOver(<<K_scores>>, ListValues)
      \cup {PyList(items) : items \in SeqsUpTo(AgeValues, MaxLen)}
      \cup DictsOver(<<K_user>>, DictsOver(<<K_name>>, AgeValues))
      \cup {PyDict(<<<<K_name, PyStr(<<"J", "o", "h", "n">>)>>, <<K_user, PyInt(30)>>>>)}

Values == Atoms \cup ListValues \cup TupleValues \cup PersonValues \cup NestedValues

ScalarTypes == {PyType(n) : n \in {"int", "float", "bool", "str", "NoneType"}}
SingleTypes == ScalarTypes \cup {PyType(n) : n \in {"list", "tuple", "dict"}}

UnionSchemas ==
    {PyTuple(<<ab[1], ab[2]>>) : ab \in {x \in ScalarTypes \X ScalarTypes : x[1] # x[2]}}
      \cup {PyTuple(<<>>), PyTuple(<<PyType("int")>>),
            PyTuple(<<PyType("dict"), PyType("list")>>)}

FieldSchemas == {PyType("int"), PyType("str"), PyTuple(<<PyType("int"), PyType("NoneType")>>)}

PersonSchemas ==
    DictsOver(<<K_name, K_age>>, FieldSchemas) \cup DictsOver(<<K_age, K_name>>, FieldSchemas)

\* objects that are no schema
BadSchemas == {PyInt(123), None, PyStr(<<"i", "n", "t">>)}

SequenceSchemas ==
    {PyList(<<s>>) : s \in {PyType("int"), PyType("str"), PyDict(<<<<K_age, PyType("int")>>>>)}
                         \cup BadSchemas \cup {PyList(<<>>)}}
      \cup {PyList(<<>>), PyList(<<PyType("int"), PyType("str")>>),
            PyTuple(<<PyType("int"), PyInt(123)>>)}

NestedSchemas ==
    DictsOver(<<K_user>>, DictsOver(<<K_name, K_age>>, {PyType("int")}))
      \cup DictsOver(<<K_scores>>, {PyList(<<PyType("int")>>), PyList(<<>>)})
      \cup {PyDict(<<<<K_user, PyDict(<<<<K_name, PyDict(<<<<K_age, PyType("int")>>>>)>>>>)>>>>)}
      \cup {PyDict(<<<<K_name, PyType("str")>>, <<K_user, b>>>>) : b \in BadSchemas}
      \cup {PyDict(<<<<K_name, b>>, <<K_age, PyType("int")>>>>) : b \in BadSchemas}

DictSchemas == PersonSchemas \cup NestedSchemas

TypeSchemas == SingleTypes \cup UnionSchemas

Schemas == TypeSchemas \cup DictSchemas \cup SequenceSchemas \cup BadSchemas

Paths == {"$", "$.data[0]"}

(***************************************************************************)
(* The validation calls as a state machine: one call per behaviour, whose  *)
(* arguments and outcome the state records.                                *)
(***************************************************************************)
NoResult == Raised("no call")

Init ==
    /\ value = None
    /\ schema = None
    /\ path = "$"
    /\ convert = FALSE
    /\ require_all_keys = TRUE
    /\ op = "idle"
    /\ result = NoResult
    /\ prior = NoResult
    /\ cr = NoConversion
    /\ trail = <<>>
    /\ call = NoCall
    /\ args = <<>>
    /\ ret = None
    /\ _TYPE_CONVERTERS = [target_type \in {} |-> ""]
    /\ heap = [t \in Threads |-> <<>>]
    /\ thread = [t \in Threads |-> Idle]

\* ValidatorFactory.validate_type(value, expected_type, path, convert)
ValidateType ==
    /\ op = "idle"
    /\ \E v \in Values, s \in TypeSchemas, p \in Paths, c \in BOOLEAN :
          /\ value' = v
          /\ schema' = s
          /\ path' = p
          /\ convert' = c
          /\ result' = validate_type(v, s, p, c)
    /\ op' = "validate_type"
    /\ UNCHANGED <<require_all_keys, prior, cr, trail, call, args, ret,
                   _TYPE_CONVERTERS, heap, thread>>

\* ValidatorFactory.validate_dict(value, schema, path, convert, require_all_keys)
ValidateDict ==
    /\ op = "idle"
    /\ \E v \in Values, s \in DictSchemas, p \in Paths, c \in BOOLEAN, r \in BOOLEAN :
          /\ value' = v
          /\ schema' = s
          /\ path' = p
          /\ convert' = c
          /\ require_all_keys' = r
          /\ result' = validate_dict(v, s, p, c, r)
    /\ op' = "validate_dict"
    /\ UNCHANGED <<prior, cr, trail, call, args, ret,
                   _TYPE_CONVERTERS, heap, thread>>

\* ValidatorFactory.validate_recursive(value, schema, path, convert)
ValidateRecursive ==
    /\ op = "idle"
    /\ \E v \in Values, s \in Schemas, p \in Paths, c \in BOOLEAN :
          /\ value' = v
          /\ schema' = s
          /\ path' = p
          /\ convert' = c
          /\ result' = validate_recursive(v, s, p, c)
    /\ op' = "validate_recursive"
    /\ UNCHANGED <<require_all_keys, prior, cr, trail, call, args, ret,
                   _TYPE_CONVERTERS, heap, thread>>

\* TypeForge.validate_and_convert(value, target_type, path)
ValidateAndConvert ==
    /\ op = "idle"
    /\ \E v \in Values, s \in SingleTypes, p \in Paths :
          /\ value' = v
          /\ schema' = s
          /\ path' = p
          /\ result' = validate_and_convert(v, s, p)
    /\ convert' = TRUE
    /\ op' = "validate_and_convert"
    /\ UNCHANGED <<require_all_keys, prior, cr, trail, call, args, ret,
                   _TYPE_CONVERTERS, heap, thread>>

\* the converted value of a valid validate_and_convert, fed back through
\* validate_type without conversion
Revalidate ==
    /\ op = "validate_and_convert"
    /\ result.valid
    /\ prior' = result
    /\ convert' = FALSE
    /\ result' = validate_type(result.converted_value, schema, path, FALSE)
    /\ op' = "revalidate"
    /\ UNCHANGED <<value, schema, path, require_all_keys, cr, trail, call, args, ret,
                   _TYPE_CONVERTERS, heap, thread>>

\* the converted value of a valid validate_and_convert, fed back through
\* validate_and_convert
Reconvert ==
    /\ op = "validate_and_convert"
    /\ result.valid
    /\ prior' = result
    /\ result' = validate_and_convert(result.converted_value, schema, path)
    /\ op' = "reconvert"
    /\ UNCHANGED <<value, schema, path, convert, require_all_keys, cr, trail, call, args, ret,
                   _TYPE_CONVERTERS, heap, thread>>

\* The results handed to ValidationResult.merge.
Violation1 == TypeViolation("$.name", "str", "int", "wrong_type")
Violation2 == TypeViolation("$.age", "int", "str", "wrong_type")

MergeResults ==
    {ValidationResult(TRUE, <<>>, None), ValidationResult(TRUE, <<>>, PyInt(1)),
     ValidationResult(FALSE, <<Violation1>>, None), ValidationResult(FALSE, <<Violation2>>, None),
     ValidationResult(FALSE, <<Violation2, Violation1>>, None),
     ValidationResult(TRUE, <<Violation2>>, None), ValidationResult(TRUE, <<>>, PyInt(30))}

Others ==
    <<value, schema, path, convert, require_all_keys, result, prior, cr, trail, call,
      _TYPE_CONVERTERS, heap, thread>>

\* a.merge(b).merge(c) on three fresh results
MergeLeft ==
    /\ op = "idle"
    /\ \E a \in MergeResults, b \in MergeResults, c \in MergeResults :
          /\ args' = <<a, b, c>>
          /\ ret' = merge(merge(a, b), c)
    /\ op' = "merge_left"
    /\ UNCHANGED Others

\* a.merge(b.merge(c)) on three fresh results
MergeRight ==
    /\ op = "idle"
    /\ \E a \in MergeResults, b \in MergeResults, c \in MergeResults :
          /\ args' = <<a, b, c>>
          /\ ret' = merge(a, merge(b, c))
    /\ op' = "merge_right"
    /\ UNCHANGED Others

\* a.merge(b) on two results, each with a violation list of its own
MergeInPlace ==
    /\ op = "idle"
    /\ \E a \in MergeResults, b \in MergeResults :
          /\ args' = <<a, b>>
          /\ ret' = merge_in_place(<<a, b>>, 1, 2)
    /\ op' = "merge"
    /\ UNCHANGED Others

Capabilities == {"absent", "ok", "ValueError", "RuntimeError"}

CustomObjects ==
    {PyCustom(c[1], c[2], c[3], c[4]) :
        c \in Capabilities \X Capabilities \X Capabilities \X Capabilities}

\* the strings handed to the coercers: every string of at most MaxLen
\* characters over a small alphabet, and some longer words
WordLetters == {"n", "o", "N", "O", "1", " ", "x"}

WordInputs ==
    SeqsUpTo(WordLetters, MaxLen)
      \cup {<<"T", "r", "u", "e">>, <<"y", "e", "s">>, <<" ", "Y", " ">>, <<"t">>,
            <<"F", "A", "L", "S", "E">>, <<"0">>, <<"f">>, <<"o", "f", "f">>,
            <<"\t", "o", "f", "f", "\n">>, <<"m", "a", "y", "b", "e">>}

CoercerInputs == Values \cup CustomObjects \cup {PyStr(w) : w \in WordInputs}

SafeIntConvert ==
    /\ op = "idle"
    /\ \E v \in CoercerInputs :
          /\ args' = <<v>>
          /\ ret' = safe_int_convert(v)
    /\ op' = "safe_int_convert"
    /\ UNCHANGED Others

SafeBoolConvert ==
    /\ op = "idle"
    /\ \E v \in CoercerInputs :
          /\ args' = <<v>>
          /\ ret' = safe_bool_convert(v)
    /\ op' = "safe_bool_convert"
    /\ UNCHANGED Others

SafeFloatConvert ==
    /\ op = "idle"
    /\ \E v \in CoercerInputs :
          /\ args' = <<v>>
          /\ ret' = safe_float_convert(v)
    /\ op' = "safe_float_convert"
    /\ UNCHANGED Others

SafeStrConvert ==
    /\ op = "idle"
    /\ \E v \in CoercerInputs :
          /\ args' = <<v>>
          /\ ret' = safe_str_convert(v)
    /\ op' = "safe_str_convert"
    /\ UNCHANGED Others

\* the classes handed to the analyzer, by name
AnalyzerTypes ==
    {"int", "float", "bool", "str", "bytes", "complex", "list", "tuple", "set",
     "frozenset", "dict", "NoneType", "object"}

GetRelationship ==
    /\ op = "idle"
    /\ \E a \in AnalyzerTypes, b \in AnalyzerTypes :
          /\ args' = <<a, b>>
          /\ ret' = get_relationship(a, b)
    /\ op' = "get_relationship"
    /\ UNCHANGED Others

GetConversionDistance ==
    /\ op = "idle"
    /\ \E a \in AnalyzerTypes, b \in AnalyzerTypes :
          /\ args' = <<a, b>>
          /\ ret' = get_conversion_distance(a, b)
    /\ op' = "get_conversion_distance"
    /\ UNCHANGED Others

IsConvertible ==
    /\ op = "idle"
    /\ \E a \in AnalyzerTypes, b \in AnalyzerTypes :
          /\ args' = <<a, b>>
          /\ ret' = is_convertible(a, b)
    /\ op' = "is_convertible"
    /\ UNCHANGED Others

\* the classes handed to find_common_supertype, by name
SupertypeInputs ==
    {"object", "int", "bool", "float", "str", "list", "tuple", "dict", "A", "B", "C", "D", "E"}

FindCommonSupertype ==
    /\ op = "idle"
    /\ \E types \in SeqsUpTo(SupertypeInputs, MaxLen) :
          /\ args' = types
          /\ ret' = find_common_supertype(types)
    /\ op' = "find_common_supertype"
    /\ UNCHANGED Others

Messages == {None, PyStr(<<>>), PyStr(<<"C", "u", "s", "t", "o", "m">>)}

\* TypeForge.assert_type(value, expected_type, message)
AssertType ==
    /\ op = "idle"
    /\ \E v \in Values, s \in TypeSchemas, m \in Messages :
          /\ args' = <<v, s, m>>
          /\ ret' = assert_type(v, s, m)
    /\ op' = "assert_type"
    /\ UNCHANGED Others

Next ==
    \/ GetRelationship
    \/ FindCommonSupertype
    \/ GetConversionDistance
    \/ IsConvertible
    \/ SafeIntConvert
    \/ SafeBoolConvert
    \/ SafeFloatConvert
    \/ SafeStrConvert
    \/ AssertType
    \/ MergeInPlace
    \/ MergeLeft
    \/ MergeRight
    \/ ValidateType
    \/ ValidateDict
    \/ ValidateRecursive
    \/ ValidateAndConvert
    \/ Revalidate
    \/ Reconvert

Spec == Init /\ [][Next]_vars

(***************************************************************************)
(* The ConversionResult pipeline as a state machine: a result is created   *)
(* and then chained through at most MaxSteps of map, then and recover.     *)
(***************************************************************************)
SuccessValues == {PyInt(1), PyStr(<<"4", "2">>), PyStr(<<"a", "b", "c">>), PyFloat("fin", 15), None}

FailureMessages == {"bad input", ""}

Defaults == {PyInt(0), None}

Started == cr.raised = ""

Validation == <<value, schema, path, convert, require_all_keys, op, result, prior, args, ret>>

\* the state that the calls on a ConversionResult leave alone
Registry == <<Validation, _TYPE_CONVERTERS, heap, thread>>

CreateSuccess ==
    /\ trail = <<>>
    /\ \E v \in SuccessValues :
          /\ cr' = create_success(v)
          /\ trail' = <<[op |-> "create_success", arg |-> v]>>
    /\ call' = NoCall
    /\ UNCHANGED Registry

Failure ==
    /\ trail = <<>>
    /\ \E e \in FailureMessages :
          /\ cr' = failure(e)
          /\ trail' = <<[op |-> "failure", arg |-> e]>>
    /\ call' = NoCall
    /\ UNCHANGED Registry

FromTry ==
    /\ trail = <<>>
    /\ \E f \in Suppliers :
          /\ cr' = from_try(f)
          /\ trail' = <<[op |-> "from_try", arg |-> f]>>
          /\ call' = Call(NoConversion, from_try_calls(f), NoOutcome)
    /\ UNCHANGED Registry

\* the target types and converters handed to register_converter
ConverterTargets == {PyType("int"), PyType("list")}

RegisteredConverters == {"parse_int", "reject"}

RegisterConverter ==
    /\ trail = <<>>
    /\ \E T \in ConverterTargets, c \in RegisteredConverters :
          /\ ~(T.name \in DOMAIN _TYPE_CONVERTERS /\ _TYPE_CONVERTERS[T.name] = c)
          /\ _TYPE_CONVERTERS' = register_converter(_TYPE_CONVERTERS, T, c)
    /\ UNCHANGED <<cr, trail, call, Validation, heap, thread>>

ConvertValues ==
    SuccessValues
      \cup {PyBool(TRUE), PyList(<<PyInt(1)>>), PyCustom("RuntimeError", "ok", "ok", "ok")}

ConvertTargets == {PyType(n) : n \in {"int", "bool", "float", "str", "list", "NoneType"}}

TryConvert ==
    /\ trail = <<>>
    /\ \E v \in ConvertValues, T \in ConvertTargets :
          /\ cr' = try_convert(v, T)
          /\ trail' = <<[op |-> "try_convert", arg |-> <<v, T>>]>>
    /\ call' = NoCall
    /\ UNCHANGED Registry

Chaining == Started /\ trail # <<>> /\ Len(trail) <= MaxSteps

Map ==
    /\ Chaining
    /\ \E f \in Transforms :
          /\ cr' = map(cr, f)
          /\ trail' = Append(trail, [op |-> "map", arg |-> f])
          /\ call' = Call(cr, map_calls(cr, f), NoOutcome)
    /\ UNCHANGED Registry

Then ==
    /\ Chaining
    /\ \E f \in Converters :
          /\ cr' = then(cr, f)
          /\ trail' = Append(trail, [op |-> "then", arg |-> f])
          /\ call' = Call(cr, then_calls(cr, f), NoOutcome)
    /\ UNCHANGED Registry

Recover ==
    /\ Chaining
    /\ \E f \in Recoveries :
          /\ cr' = recover(cr, f)
          /\ trail' = Append(trail, [op |-> "recover", arg |-> f])
          /\ call' = Call(cr, recover_calls(cr, f), NoOutcome)
    /\ UNCHANGED Registry

\* the unwrapping calls leave their receiver as it is
OrElse ==
    /\ Chaining
    /\ \E d \in Defaults :
          /\ trail' = Append(trail, [op |-> "or_else", arg |-> d])
          /\ call' = Call(cr, <<>>, or_else(cr, d))
    /\ UNCHANGED <<cr, Registry>>

OrElseGet ==
    /\ Chaining
    /\ \E f \in Suppliers :
          /\ trail' = Append(trail, [op |-> "or_else_get", arg |-> f])
          /\ call' = Call(cr, or_else_get_calls(cr, f), or_else_get(cr, f))
    /\ UNCHANGED <<cr, Registry>>

OrRaise ==
    /\ Chaining
    /\ \E f \in Factories :
          /\ trail' = Append(trail, [op |-> "or_raise", arg |-> f])
          /\ call' = Call(cr, <<>>, or_raise(cr, f))
    /\ UNCHANGED <<cr, Registry>>

NextConversion ==
    \/ RegisterConverter
    \/ TryConvert
    \/ CreateSuccess
    \/ Failure
    \/ FromTry
    \/ Map
    \/ Then
    \/ Recover
    \/ OrElse
    \/ OrElseGet
    \/ OrRaise

SpecConversion == Init /\ [][NextConversion]_vars

(***************************************************************************)
(* Two threads call validate_recursive on the same value and schema; their *)
(* steps interleave in any order.                                          *)
(***************************************************************************)
K_x == PyStr(<<"x">>)

ConcurrentInputs ==
    {<<PyDict(<<<<K_name, PyStr(<<"J", "o", "h", "n">>)>>, <<K_age, PyStr(<<"3", "0">>)>>>>),
       PyDict(<<<<K_name, PyType("str")>>, <<K_age, PyType("int")>>>>)>>,
     <<PyDict(<<<<K_name, PyInt(30)>>, <<K_x, None>>>>),
       PyDict(<<<<K_age, PyType("int")>>, <<K_name, PyType("str")>>>>)>>,
     <<PyList(<<PyInt(30), PyStr(<<"3", "0">>), None>>), PyList(<<PyType("int")>>)>>,
     <<PyTuple(<<PyStr(<<"3", "0">>)>>), PyList(<<PyType("int")>>)>>,
     <<PyDict(<<<<K_scores, PyList(<<PyStr(<<"3", "0">>), PyInt(30)>>)>>>>),
       PyDict(<<<<K_scores, PyList(<<PyType("int")>>)>>>>)>>,
     <<PyList(<<PyDict(<<<<K_age, PyInt(30)>>>>), PyDict(<<<<K_age, PyStr(<<"x">>)>>>>)>>),
       PyList(<<PyDict(<<<<K_age, PyType("int")>>>>)>>)>>,
     <<PyDict(<<<<K_name, PyStr(<<"J", "o", "h", "n">>)>>, <<K_user, PyInt(30)>>>>),
       PyDict(<<<<K_name, PyType("str")>>, <<K_user, PyInt(123)>>>>)>>,
     <<PyList(<<PyList(<<PyInt(30)>>)>>), PyList(<<PyType("list")>>)>>,
     <<PyInt(30), PyType("str")>>,
     <<PyInt(30), PyDict(<<<<K_age, PyType("int")>>>>)>>,
     <<PyList(<<>>), PyList(<<>>)>>}

\* both threads are handed the same value and the same schema
Begin ==
    /\ op = "idle"
    /\ \E input \in ConcurrentInputs, c \in BOOLEAN :
          /\ value' = input[1]
          /\ schema' = input[2]
          /\ convert' = c
          /\ thread' = [t \in Threads |->
                           [stack |-> <<Frame("enter", input[1], input[2], "$")>>,
                            status |-> "running", result |-> NoRef]]
    /\ path' = "$"
    /\ op' = "concurrent"
    /\ UNCHANGED <<require_all_keys, result, prior, cr, trail, call, args, ret,
                   _TYPE_CONVERTERS, heap>>

Shared == <<value, schema, path, convert, require_all_keys, op, result, prior, cr, trail, call,
            args, ret, _TYPE_CONVERTERS>>

\* validate_recursive up to its first nested call: the schema check, the
\* cases that return at once, and the objects the two loops start from
Enter ==
    \E t \in Threads :
       /\ Running(t, "enter")
       /\ LET f == Top(t)
              stack == thread[t].stack
          IN IF ~IsSchemaObject(f.sch)
             THEN /\ thread' = [thread EXCEPT ![t] =
                                   [stack |-> <<>>, status |-> "raised", result |-> NoRef]]
                  /\ heap' = heap
             ELSE IF EntersDict(f.v, f.sch)
             THEN LET out == NewObject(heap, t)
                      h1 == Store(heap, out, DictObject(<<>>, t))
                      violations == NewList(h1, t)
                      h2 == Extended(h1, violations, <<>>, t)
                      res == NewObject(h2, t)
                      h3 == Store(h2, res, ResultObject(TRUE, violations, out, t))
                  IN /\ heap' = h3
                     /\ thread' = [thread EXCEPT ![t] =
                           Replaced(stack, [f EXCEPT !.pc = "missing", !.res = res, !.out = out])]
             ELSE IF EntersSequence(f.v, f.sch)
             THEN LET violations == NewList(heap, t)
                      h1 == Extended(heap, violations, <<>>, t)
                      initial == NewObject(h1, t)
                      h2 == Store(h1, initial, ListObject(<<>>, t))
                      res == NewObject(h2, t)
                      h3 == Store(h2, res, ResultObject(TRUE, violations, initial, t))
                      out == NewObject(h3, t)
                      h4 == Store(h3, out, ListObject(<<>>, t))
                  IN /\ heap' = h4
                     /\ thread' = [thread EXCEPT ![t] =
                           Replaced(stack, [f EXCEPT !.pc = "loop", !.res = res, !.out = out])]
             ELSE LET r == validate_recursive(f.v, f.sch, f.p, convert)
                      violations == NewList(heap, t)
                      h1 == Extended(heap, violations, r.violations, t)
                      res == NewObject(h1, t)
                      h2 == Store(h1, res,
                                  ResultObject(r.valid, violations, r.converted_value, t))
                  IN /\ heap' = h2
                     /\ thread' = [thread EXCEPT ![t] = ReturnTo(stack, res)]
       /\ UNCHANGED Shared

\* validate_dict: the check for required keys
Missing ==
    \E t \in Threads :
       /\ Running(t, "missing")
       /\ LET f == Top(t)
              missing == MissingKeyViolations(f.v, f.sch.pairs, f.p)
              res == Deref(heap, f.res)
              h1 == Extended(heap, res.violations, missing, t)
          IN /\ heap' = IF missing = <<>> THEN Read(heap, f.res, t)
                        ELSE Store(h1, f.res,
                                   [res EXCEPT !.valid = FALSE, !.touched = @ \cup {t}])
             /\ thread' = [thread EXCEPT ![t] = Replaced(thread[t].stack, [f EXCEPT !.pc = "loop"])]
       /\ UNCHANGED Shared

\* the head of the two loops: the next nested call, or the return
Loop ==
    \E t \in Threads :
       /\ Running(t, "loop")
       /\ LET f == Top(t)
              stack == thread[t].stack
              res == Deref(heap, f.res)
          IN IF f.sch.t = "dict"
             THEN IF f.i > Len(f.sch.pairs)
                  THEN /\ heap' = heap
                       /\ thread' = [thread EXCEPT ![t] = ReturnTo(stack, f.res)]
                  ELSE IF ~HasKey(f.v, f.sch.pairs[f.i][1])
                  THEN /\ heap' = heap
                       /\ thread' = [thread EXCEPT ![t] =
                                        Replaced(stack, [f EXCEPT !.i = f.i + 1])]
                  ELSE /\ heap' = heap
                       /\ thread' = [thread EXCEPT ![t] =
                             Called(stack, [f EXCEPT !.pc = "keep"],
                                    GetItem(f.v, f.sch.pairs[f.i][1]), f.sch.pairs[f.i][2],
                                    KeyPath(f.p, f.sch.pairs[f.i][1]))]
             ELSE IF f.i > Len(f.v.items)
                  THEN /\ heap' = IF res.valid
                                  THEN Store(heap, f.res,
                                             [res EXCEPT !.converted_value = f.out,
                                                         !.touched = @ \cup {t}])
                                  ELSE Read(heap, f.res, t)
                       /\ thread' = [thread EXCEPT ![t] = ReturnTo(stack, f.res)]
                  ELSE /\ heap' = heap
                       /\ thread' = [thread EXCEPT ![t] =
                             Called(stack, [f EXCEPT !.pc = "absorb"],
                                    f.v.items[f.i], f.sch.items[1], ItemPath(f.p, f.i - 1))]
       /\ UNCHANGED Shared

\* the violations and the valid flag of the nested result enter the result:
\* result.merge(key_result) in validate_dict, and in validate_recursive the
\* extend of an invalid item_result
Absorb ==
    \E t \in Threads :
       /\ Running(t, "absorb")
       /\ LET f == Top(t)
              got == Deref(heap, f.got)
              res == Deref(heap, f.res)
              h1 == Read(Read(heap, f.got, t), got.violations, t)
              extends == f.sch.t = "dict" \/ ~got.valid
              h2 == IF extends
                    THEN Extended(h1, res.violations, Deref(heap, got.violations).items, t)
                    ELSE h1
              h3 == Store(h2, f.res, [Deref(h2, f.res) EXCEPT
                                         !.valid = IF ~got.valid THEN FALSE ELSE @,
                                         !.touched = @ \cup {t}])
          IN /\ heap' = h3
             /\ thread' = [thread EXCEPT ![t] =
                   Replaced(thread[t].stack,
                            IF f.sch.t = "dict" THEN [f EXCEPT !.pc = "loop", !.i = f.i + 1]
                            ELSE [f EXCEPT !.pc = "keep"])]
       /\ UNCHANGED Shared

\* the converted or the original element enters result_dict or result_list
Keep ==
    \E t \in Threads :
       /\ Running(t, "keep")
       /\ LET f == Top(t)
              got == Deref(heap, f.got)
              out == Deref(heap, f.out)
              h1 == Read(heap, f.got, t)
              converted == got.valid /\ got.converted_value # None
          IN IF f.sch.t = "dict"
             THEN LET key == f.sch.pairs[f.i][1]
                      kept == IF converted THEN got.converted_value ELSE GetItem(f.v, key)
                  IN /\ heap' = Store(h1, f.out,
                                      [out EXCEPT !.pairs = SetItem(@, key, kept),
                                                  !.touched = @ \cup {t}])
                     /\ thread' = [thread EXCEPT ![t] =
                                      Replaced(thread[t].stack, [f EXCEPT !.pc = "absorb"])]
             ELSE LET kept == IF converted THEN got.converted_value ELSE f.v.items[f.i]
                  IN /\ heap' = Store(h1, f.out,
                                      [out EXCEPT !.items = Append(@, kept),
                                                  !.touched = @ \cup {t}])
                     /\ thread' = [thread EXCEPT ![t] =
                                      Replaced(thread[t].stack,
                                               [f EXCEPT !.pc = "loop", !.i = f.i + 1])]
       /\ UNCHANGED Shared

NextConcurrent ==
    \/ Begin
    \/ Enter
    \/ Missing
    \/ Loop
    \/ Absorb
    \/ Keep

SpecConcurrent == Init /\ [][NextConcurrent]_vars

(***************************************************************************)
(* Locations of a value under a schema.  A chain is a sequence of steps    *)
(* from the root: a str is the key of a keyed structure, an int the        *)
(* zero-based index of a sequence element.                                 *)
(***************************************************************************)
IsUnionSchema(sch) == sch.t = "tuple" /\ AllTypes(sch.items)

IsSequenceSchema(sch) == sch.t \in {"list", "tuple"} /\ ~IsUnionSchema(sch) /\ Len(sch.items) > 0

SchemaKeys(sch) == {sch.pairs[j][1] : j \in 1..Len(sch.pairs)}

Range(seq) == {seq[j] : j \in 1..Len(seq)}

\* the chains that lead to an element the schema describes; a chain ends at
\* a schema key the value lacks
RECURSIVE Locs(_, _)
Locs(v, sch) ==
    {<<>>}
      \cup (IF sch.t = "dict" /\ v.t = "dict"
            THEN UNION {IF HasKey(v, k)
                        THEN {<<k>> \o c : c \in Locs(GetItem(v, k), GetItem(sch, k))}
                        ELSE {<<k>>} : k \in SchemaKeys(sch)}
            ELSE {})
      \cup (IF IsSequenceSchema(sch) /\ v.t \in {"list", "tuple"}
            THEN UNION {{<<PyInt(j - 1)>> \o c : c \in Locs(v.items[j], sch.items[1])} :
                           j \in 1..Len(v.items)}
            ELSE {})

\* the element and the schema a chain of Locs(v, sch) leads to
RECURSIVE At(_, _, _)
At(v, sch, chain) ==
    IF chain = <<>> THEN [v |-> v, sch |-> sch, missing |-> FALSE]
    ELSE IF Head(chain).t = "str"
    THEN IF HasKey(v, Head(chain))
         THEN At(GetItem(v, Head(chain)), GetItem(sch, Head(chain)), Tail(chain))
         ELSE [v |-> None, sch |-> GetItem(sch, Head(chain)), missing |-> TRUE]
    ELSE At(v.items[Head(chain).i + 1], sch.items[1], Tail(chain))

RECURSIVE RenderChain(_)
RenderChain(chain) ==
    IF chain = <<>> THEN ""
    ELSE (IF Head(chain).t = "str"
          THEN "." \o Native(Head(chain).s)
          ELSE "[" \o Native(IntToStr(Head(chain).i)) \o "]")
         \o RenderChain(Tail(chain))

\* the element itself does not have the shape its schema asks for
Mismatch(v, sch, conv) ==
    IF sch.t = "type" \/ IsUnionSchema(sch) THEN ~validate_type(v, sch, "", conv).valid
    ELSE IF sch.t = "dict" THEN v.t # "dict"
    ELSE IF IsSequenceSchema(sch) THEN v.t \notin {"list", "tuple"}
    ELSE TRUE

Offending(v, sch, chain, conv) ==
    At(v, sch, chain).missing \/ Mismatch(At(v, sch, chain).v, At(v, sch, chain).sch, conv)

ReachedLocs == {c \in Locs(value, schema) : ~At(value, schema, c).missing}

Returned_ == result.raised = ""

ValidatorCall == op \in {"validate_type", "validate_dict", "validate_recursive"}

JohnOnly == PyDict(<<<<K_name, PyStr(<<"J", "o", "h", "n">>)>>>>)

PersonSchema == PyDict(<<<<K_name, PyType("str")>>, <<K_age, PyType("int")>>>>)

(***************************************************************************)
(* C1: every ValidationResult returned by validate_type, validate_dict and *)
(* validate_recursive that is invalid has no converted value (None).       *)
(***************************************************************************)
C1_InvalidHasNoConvertedValue ==
    (ValidatorCall /\ Returned_ /\ ~result.valid) => result.converted_value = None

(***************************************************************************)
(* C2: for every value v, None included, validate_type(v, type(v)) without *)
(* conversion is valid and has no violation.                               *)
(***************************************************************************)
C2_OwnTypeIsValid ==
    (op = "validate_type" /\ ~convert /\ schema = PyType(TypeName(value)))
        => (Returned_ /\ result.valid /\ result.violations = <<>>)

C2_Witness ==
    /\ op = "validate_type" /\ ~convert
    /\ value = None /\ schema = PyType("NoneType")
    /\ result.valid

(***************************************************************************)
(* C3: with require_all_keys, validate_dict on a dict reports exactly one  *)
(* MISSING_KEY violation at '<path>.<key>' per schema key the value lacks, *)
(* is then invalid, and still reports every violation of the keys that are *)
(* present.                                                                *)
(***************************************************************************)
MissingKeys == {k \in SchemaKeys(schema) : ~HasKey(value, k)}

PresentKeys == {k \in SchemaKeys(schema) : HasKey(value, k)}

MissingReports(k) ==
    {j \in 1..Len(result.violations) :
        /\ result.violations[j].kind = "missing_key"
        /\ result.violations[j].path = path \o "." \o Native(k.s)}

C3_MissingKeysDoNotShortCircuit ==
    (op = "validate_dict" /\ require_all_keys /\ value.t = "dict" /\ Returned_)
        => /\ \A k \in MissingKeys : Cardinality(MissingReports(k)) = 1
           /\ (MissingKeys # {} => ~result.valid)
           /\ \A k \in PresentKeys :
                 Range(validate_recursive(GetItem(value, k), GetItem(schema, k),
                                          path \o "." \o Native(k.s), convert).violations)
                     \subseteq Range(result.violations)

C3_Witness ==
    /\ op = "validate_dict" /\ require_all_keys /\ value.t = "dict" /\ Returned_
    /\ MissingKeys # {}
    /\ \E j \in 1..Len(result.violations) : result.violations[j].kind = "wrong_type"
    /\ ~result.valid

(***************************************************************************)
(* C4 as stated: validating {name: "John"} against {name: str, age: int}   *)
(* with require_all_keys=False gives exactly one MISSING_KEY violation, at *)
(* '$.age', and valid = true.                                              *)
(***************************************************************************)
JohnCall ==
    /\ op = "validate_dict" /\ ~require_all_keys /\ path = "$"
    /\ value = JohnOnly /\ schema = PersonSchema

C4_OptionalMissingKeyReported ==
    JohnCall
        => /\ Cardinality({j \in 1..Len(result.violations) :
                              result.violations[j].kind = "missing_key"}) = 1
           /\ \E j \in 1..Len(result.violations) :
                 /\ result.violations[j].kind = "missing_key"
                 /\ result.violations[j].path = "$.age"
           /\ result.valid

(***************************************************************************)
(* C4 amended: that call returns valid = true and no violation at all: a   *)
(* key that is not required is not reported.                               *)
(***************************************************************************)
C4_OptionalMissingKeySilent ==
    JohnCall => (Returned_ /\ result.valid /\ result.violations = <<>>)

C4_Witness == JohnCall /\ result.valid /\ result.converted_value = JohnOnly

(***************************************************************************)
(* C5: with require_all_keys=False a schema key missing from the data      *)
(* never makes the result invalid, at any nesting depth: an invalid result *)
(* has a violation that is not a missing key.                              *)
(***************************************************************************)
C5_OptionalKeysAtAnyDepth ==
    (op = "validate_dict" /\ ~require_all_keys /\ Returned_ /\ ~result.valid)
        => \E j \in 1..Len(result.violations) : result.violations[j].kind # "missing_key"

(***************************************************************************)
(* C6: every violation of validate_recursive started at root path p has    *)
(* the path p followed by the '.key' and '[index]' steps that lead to the  *)
(* offending or missing element, the index being zero-based.               *)
(***************************************************************************)
C6_ViolationPathLocatesElement ==
    (op = "validate_recursive" /\ Returned_)
        => \A j \in 1..Len(result.violations) :
              \E c \in Locs(value, schema) :
                 /\ result.violations[j].path = path \o RenderChain(c)
                 /\ Offending(value, schema, c, convert)

C6_Witness ==
    /\ op = "validate_recursive" /\ Returned_ /\ path = "$"
    /\ \E j \in 1..Len(result.violations) : result.violations[j].path = "$.scores[1]"
    /\ \A j \in 1..Len(result.violations) : result.violations[j].path # "$.scores[0]"

(***************************************************************************)
(* C7 as stated: when validate_type converts a value that matches none of  *)
(* the accepted types and several coercions would succeed, the target is   *)
(* the accepted type of lowest conversion distance, so the converted value *)
(* is the same under every reordering of the accepted types.               *)
(***************************************************************************)
Reverse(seq) == [j \in 1..Len(seq) |-> seq[Len(seq) + 1 - j]]

Succeeding(v, types) ==
    {j \in 1..Len(types) : types[j].name # "NoneType" /\ _try_convert(v, types[j]) # None}

SeveralCoercions ==
    /\ op = "validate_type" /\ convert /\ schema.t = "tuple"
    /\ value # None /\ ~IsInstanceAny(value, schema.items)
    /\ Cardinality(Succeeding(value, schema.items)) > 1

C8_ConversionIsIdempotent ==
    (op \in {"revalidate", "reconvert"} /\ schema.name \in {"int", "float", "bool", "str"})
        => /\ Returned_ /\ result.valid
           /\ result.violations = <<>>
           /\ result.converted_value = prior.converted_value

C8_Witness ==
    /\ op = "revalidate"
    /\ value = PyStr(<<"4", "2">>) /\ schema = PyType("int")
    /\ prior.converted_value = PyInt(42)
    /\ result.converted_value = PyInt(42)

(***************************************************************************)
(* C9 as stated: for every schema that is none of the four variants, at    *)
(* the top level or under a key or list element that is reached,           *)
(* validate_recursive raises instead of returning a ValidationResult.      *)
(***************************************************************************)
ForeignObjectReached ==
    \E c \in ReachedLocs : At(value, schema, c).sch.t \notin {"dict", "list", "tuple", "type"}

EmptyListReached == \E c \in ReachedLocs : At(value, schema, c).sch = PyList(<<>>)

C9_MalformedSchemaRaises ==
    (op = "validate_recursive" /\ (ForeignObjectReached \/ EmptyListReached))
        => result.raised # ""

(***************************************************************************)
(* C9 amended: a reached schema that is not a dict, list, tuple or type    *)
(* makes validate_recursive raise TypeError; a reached empty list schema   *)
(* does not raise: it is returned as an invalid result with a              *)
(* SCHEMA_MISMATCH violation at its path.                                  *)
(***************************************************************************)
C9_ForeignSchemaRaises ==
    op = "validate_recursive"
        => /\ ForeignObjectReached => result.raised = "TypeError"
           /\ (~ForeignObjectReached /\ EmptyListReached)
                 => /\ Returned_ /\ ~result.valid
                    /\ \A c \in ReachedLocs :
                          At(value, schema, c).sch = PyList(<<>>)
                             => \E j \in 1..Len(result.violations) :
                                   /\ result.violations[j].kind = "schema_mismatch"
                                   /\ result.violations[j].path = path \o RenderChain(c)

C9_Witness ==
    /\ op = "validate_recursive"
    /\ schema = PyDict(<<<<K_name, PyType("str")>>, <<K_user, PyInt(123)>>>>)
    /\ value.t = "dict" /\ HasKey(value, K_user)
    /\ result.raised = "TypeError"

(***************************************************************************)
(* C10: every ConversionResult reached from create_success, failure and    *)
(* from_try through map, then and recover has success true if and only if  *)
(* its value is present and its error absent.                              *)
(***************************************************************************)
C10_SuccessIffValuePresent ==
    Started => (cr.success <=> (cr.value # None /\ cr.error = NoError))

(***************************************************************************)
(* The last call of the pipeline and its callback.                         *)
(***************************************************************************)
LastOp == IF trail = <<>> THEN "none" ELSE trail[Len(trail)].op

LastArg == trail[Len(trail)].arg

(***************************************************************************)
(* C11: for every x and all non-faulting f and g,                          *)
(* create_success(x).map(f).map(g) is a success whose value is g(f(x));    *)
(* for every error e, failure(e).map(f) is a failure with error e and f is *)
(* not applied.                                                            *)
(***************************************************************************)
MapTwice ==
    /\ Len(trail) = 3
    /\ trail[1].op = "create_success" /\ trail[2].op = "map" /\ trail[3].op = "map"

C11_MapComposes ==
    /\ MapTwice =>
          LET fx == CallTransform(trail[2].arg, trail[1].arg)
          IN (fx.ok /\ CallTransform(trail[3].arg, fx.v).ok)
                => cr = create_success(CallTransform(trail[3].arg, fx.v).v)
    /\ (Len(trail) = 2 /\ trail[1].op = "failure" /\ trail[2].op = "map")
          => (cr = failure(trail[1].arg) /\ call.invoked = <<>>)

(***************************************************************************)
(* C12: then(f) on a failure with error e never invokes f and gives a      *)
(* failure with the same error e; on a success with value v the result is  *)
(* exactly f(v).                                                           *)
(***************************************************************************)
C12_ThenShortCircuits ==
    LastOp = "then"
        => /\ ~call.self.success => (call.invoked = <<>> /\ cr = call.self)
           /\ call.self.success =>
                 LET fv == CallConverter(LastArg, call.self.value)
                 IN IF fv.ok THEN cr = fv.v ELSE cr.raised # ""

MessageFor(e) == IF e = "" THEN "Unknown error" ELSE e

C14_OnlyOrRaiseRaises ==
    /\ LastOp \in {"from_try", "map", "then", "recover"} => Started
    /\ LastOp \in {"or_else", "or_else_get"} => call.out.kind = "returned"
    /\ LastOp = "or_raise" => (call.out.kind = "raised" <=> ~call.self.success)

(***************************************************************************)
(* C15: ValidationResult.merge is associative: a.merge(b).merge(c) and     *)
(* a.merge(b.merge(c)) both have the AND of the three valid flags and the  *)
(* violations of a, then of b, then of c, none dropped or duplicated.      *)
(***************************************************************************)
C15_MergeIsAssociative ==
    op \in {"merge_left", "merge_right"}
        => /\ ret.valid = (args[1].valid /\ args[2].valid /\ args[3].valid)
           /\ ret.violations
                 = args[1].violations \o args[2].violations \o args[3].violations
           /\ merge(merge(args[1], args[2]), args[3]).valid
                 = merge(args[1], merge(args[2], args[3])).valid
           /\ merge(merge(args[1], args[2]), args[3]).violations
                 = merge(args[1], merge(args[2], args[3])).violations

C15_Witness ==
    /\ op = "merge_right"
    /\ args[1].valid /\ ~args[2].valid /\ args[3].valid
    /\ args[3].violations = <<Violation2>>
    /\ ~ret.valid
    /\ ret.violations = <<Violation1, Violation2>>

(***************************************************************************)
(* C16 as stated: assert_type(value, types, message) raises exactly when   *)
(* validate_type(value, types) without conversion is invalid, that is when *)
(* check_type is false; the error text is message if a message was         *)
(* supplied and otherwise contains path, expected, found and kind of every *)
(* violation; when it does not raise it returns the original value.        *)
(***************************************************************************)
Describes(text, violation) ==
    {violation.path, violation.expected, violation.found, violation.kind} \subseteq Range(text)

AssertCall == op = "assert_type"

C16_AssertRaisesWithMessage ==
    AssertCall
        => LET checked == validate_type(args[1], args[2], "$", FALSE)
           IN /\ (ret.kind = "raised") = ~checked.valid
              /\ (ret.kind = "raised") = ~check_type(args[1], args[2])
              /\ ret.kind = "raised" =>
                    /\ ret.exc = "TypeError"
                    /\ IF args[3] # None THEN ret.msg = <<Native(args[3].s)>>
                       ELSE \A j \in 1..Len(checked.violations) :
                               Describes(ret.msg, checked.violations[j])
              /\ ret.kind # "raised" => (ret.kind = "returned" /\ ret.v = args[1])

(***************************************************************************)
(* C16 amended: as stated, except that the error text is message only if a *)
(* non-empty message was supplied; with no message or an empty one it      *)
(* contains the description of every violation.                            *)
(***************************************************************************)
C16_AssertRaisesWithNonEmptyMessage ==
    AssertCall
        => LET checked == validate_type(args[1], args[2], "$", FALSE)
           IN /\ (ret.kind = "raised") = ~checked.valid
              /\ (ret.kind = "raised") = ~check_type(args[1], args[2])
              /\ ret.kind = "raised" =>
                    /\ ret.exc = "TypeError"
                    /\ IF args[3] # None /\ args[3].s # <<>>
                       THEN ret.msg = <<Native(args[3].s)>>
                       ELSE /\ checked.violations # <<>>
                            /\ \A j \in 1..Len(checked.violations) :
                                  Describes(ret.msg, checked.violations[j])
              /\ ret.kind # "raised" => (ret.kind = "returned" /\ ret.v = args[1])

C16_Witness ==
    /\ AssertCall
    /\ args = <<PyStr(<<"4", "2">>), PyType("int"), PyStr(<<>>)>>
    /\ ret.kind = "raised"
    /\ ret.msg = <<"Type assertion failed: ", "At path '", "$", "': Expected ", "int",
                   ", found ", "str", " (", "wrong_type", ")">>

(***************************************************************************)
(* C17: safe_int_convert, safe_bool_convert, safe_float_convert and        *)
(* safe_str_convert never raise, whatever the input, objects whose own     *)
(* int, float, bool or str conversion faults included: they return an int  *)
(* or None, a bool, a float or None, and a str.                            *)
(***************************************************************************)
CoercerCall ==
    op \in {"safe_int_convert", "safe_bool_convert", "safe_float_convert", "safe_str_convert"}

C17_CoercersAreTotal ==
    CoercerCall
        => /\ ret.t # "raise"
           /\ op = "safe_int_convert" => ret.t \in {"int", "NoneType"}
           /\ op = "safe_bool_convert" => ret.t = "bool"
           /\ op = "safe_float_convert" => ret.t \in {"float", "NoneType"}
           /\ op = "safe_str_convert" => ret.t = "str"

(***************************************************************************)
(* C18 as stated: for every string s, safe_bool_convert(s) is true when s, *)
(* compared case-insensitively, is one of "true", "yes", "1", "y", "t",    *)
(* "on"; false when it is one of "false", "no", "0", "n", "f", "off"; and  *)
(* for every other string true if and only if s is non-empty.              *)
(***************************************************************************)
BoolOfString == op = "safe_bool_convert" /\ args[1].t = "str"

C18_BoolTableCaseInsensitive ==
    BoolOfString
        => LET folded == Native(StrLower(args[1].s))
           IN ret = PyBool(IF folded \in TrueWords THEN TRUE
                           ELSE IF folded \in FalseWords THEN FALSE
                           ELSE args[1].s # <<>>)

(***************************************************************************)
(* C18 amended: the string is first stripped of leading and trailing       *)
(* whitespace; the stripped string is looked up case-insensitively in the  *)
(* two word lists, and any other string is true if and only if it is       *)
(* non-empty after stripping.                                              *)
(***************************************************************************)
C18_BoolTableStripped ==
    BoolOfString
        => LET folded == Native(StrLower(StrStrip(args[1].s)))
           IN ret = PyBool(IF folded \in TrueWords THEN TRUE
                           ELSE IF folded \in FalseWords THEN FALSE
                           ELSE StrStrip(args[1].s) # <<>>)

C18_Witness ==
    /\ BoolOfString
    /\ args[1] = PyStr(<<" ", "N">>)
    /\ ret = PyBool(FALSE)

(***************************************************************************)
(* C19 as stated: get_relationship(source, target) follows the rule list   *)
(* in order: identical types give IDENTICAL; source is-a target SUBTYPE;   *)
(* target is-a source SUPERTYPE; both numeric primitives                   *)
(* IMPLICIT_CONVERTIBLE; target str, for any source, or source str and     *)
(* target numeric, CONVERTIBLE; both container-family types                *)
(* CONTAINER_COMPATIBLE; anything else INCOMPATIBLE.                       *)
(***************************************************************************)
NumericPrimitive(typ) == typ \in NumericTypes /\ typ \in PrimitiveTypes

RelationshipCall == op = "get_relationship"

MappingAndSequence ==
    \/ (args[1] = "dict" /\ args[2] \in {"list", "tuple"})
    \/ (args[1] \in {"list", "tuple"} /\ args[2] = "dict")

C20_MappingSequenceNotConvertible ==
    /\ (op = "is_convertible" /\ MappingAndSequence) => ret = FALSE
    /\ (op = "get_conversion_distance" /\ MappingAndSequence) => ret = Infinity

(***************************************************************************)
(* C21: find_common_supertype(t1, ..., tn) returns a type that is an       *)
(* ancestor of, or equal to, every input type and is the most specific     *)
(* such shared ancestor, whatever the order of the arguments; it returns   *)
(* None when the only shared ancestor is object, and None when called with *)
(* no types.                                                               *)
(***************************************************************************)
\* the abstract base classes issubclass(t, .) accepts without their being in
\* the MRO of t: numbers.Number and collections.abc.Sequence
VirtualBases(t) ==
    CASE t \in {"int", "bool", "float"} -> {"Number"}
      [] t \in {"list", "tuple", "str"} -> {"Sequence"}
      [] OTHER -> {}

\* the classes c with issubclass(t, c)
Ancestors(t) == Range(Mro(t)) \cup VirtualBases(t)

SharedAncestors(types) == {c \in UNION {Ancestors(types[j]) : j \in 1..Len(types)} :
                             \A j \in 1..Len(types) : c \in Ancestors(types[j])}

Reorderings(types) ==
    {[j \in 1..Len(types) |-> types[f[j]]] : f \in Permutations(1..Len(types))}

C21_MostSpecificSharedAncestor ==
    op = "find_common_supertype"
        => /\ args = <<>> => ret = None
           /\ (args # <<>> /\ SharedAncestors(args) = {"object"}) => ret = None
           /\ (args # <<>> /\ SharedAncestors(args) # {"object"})
                 => /\ ret # None
                    /\ ret.name \in SharedAncestors(args)
                    /\ \A c \in SharedAncestors(args) :
                          c # ret.name => ret.name \notin Ancestors(c)
           /\ \A other \in Reorderings(args) : find_common_supertype(other) = ret

(***************************************************************************)
(* C22: after register_converter(T, c), every later try_convert(v, T) on a *)
(* value v that is not already an instance of T uses the registered        *)
(* converter: its result is c(v).                                          *)
(***************************************************************************)
C22_RegisteredConverterIsUsed ==
    (LastOp = "try_convert"
        /\ LastArg[2].name \in DOMAIN _TYPE_CONVERTERS
        /\ ~IsInstance(LastArg[1], LastArg[2]))
        => LET cv == CallConverter(_TYPE_CONVERTERS[LastArg[2].name], LastArg[1])
           IN IF cv.ok THEN cr = cv.v ELSE cr.raised # ""

(***************************************************************************)
(* C23: when two validate_recursive calls on the same schema and the same  *)
(* value are interleaved at any step, each returns the result it would     *)
(* return when run alone, the two results share no violation list, no      *)
(* ValidationResult and no result_list or result_dict, and no call reads   *)
(* or writes an object the other call created or wrote.                    *)
(***************************************************************************)
Finished(t) == thread[t].status \in {"done", "raised"}

C23_ConcurrentValidationsIndependent ==
    op = "concurrent"
        => /\ \A t \in Threads :
                 Finished(t) => Outcome(heap, t) = validate_recursive(value, schema, path, convert)
           /\ Objects(heap, 1) \cap Objects(heap, 2) = {}
           /\ \A t \in Threads : \A k \in 1..Len(heap[t]) : heap[t][k].touched = {t}

C23_Witness ==
    /\ op = "concurrent"
    /\ \A t \in Threads : thread[t].status = "done"
    /\ Len(Outcome(heap, 1).violations) = 2
    /\ Len(heap[1]) > 3 /\ Len(heap[2]) > 3
    /\ heap[1][1].touched = {1} /\ heap[2][1].touched = {2}

(***************************************************************************)
(* C24: when validate_type is called with convert=True on a value that is  *)
(* not None and is an instance of none of the accepted types, the accepted *)
(* types are tried in declaration order and the converted value is the     *)
(* coercion to the first accepted type whose coercion succeeds; the result *)
(* is invalid, with one WRONG_TYPE violation, only if the coercion to      *)
(* every accepted type fails.                                              *)
(***************************************************************************)
NeedsCoercion ==
    /\ op = "validate_type" /\ convert
    /\ value # None /\ ~IsInstanceAny(value, NormalizedTypes(schema))

C24_FirstCoercionInDeclarationOrder ==
    NeedsCoercion
        => LET types == NormalizedTypes(schema)
               succeeding == Succeeding(value, types)
           IN /\ Returned_
              /\ succeeding = {}
                    => /\ ~result.valid
                       /\ Len(result.violations) = 1
                       /\ result.violations[1].kind = "wrong_type"
                       /\ result.violations[1].path = path
                       /\ result.violations[1].found = TypeName(value)
              /\ succeeding # {}
                    => /\ result.valid /\ result.violations = <<>>
                       /\ \A k \in succeeding :
                             (\A j \in 1..(k - 1) : j \notin succeeding)
                                => result.converted_value = _try_convert(value, types[k])

C24_Witness ==
    /\ NeedsCoercion
    /\ value = PyStr(<<"1", ".", "5">>)
    /\ schema = PyTuple(<<PyType("int"), PyType("float")>>)
    /\ result.valid
    /\ result.converted_value = PyFloat("fin", 15)

(***************************************************************************)
(* C25: for a list or tuple validated against a sequence schema, whenever  *)
(* the result is valid its converted value is a list of the length of the  *)
(* input whose i-th entry is the converted value of input element i if     *)
(* the validation of that element gave one, and the original element       *)
(* otherwise; without conversion an element validated against a type is    *)
(* kept as it is.                                                          *)
(***************************************************************************)
ValidSequence ==
    /\ op = "validate_recursive" /\ Returned_ /\ result.valid
    /\ IsSequenceSchema(schema) /\ value.t \in {"list", "tuple"}

C25_SequenceOutputKeepsOrder ==
    ValidSequence
        => /\ result.converted_value.t = "list"
           /\ Len(result.converted_value.items) = Len(value.items)
           /\ \A i \in 1..Len(value.items) :
                 LET element == validate_recursive(value.items[i], schema.items[1],
                                                   ItemPath(path, i - 1), convert)
                     entry == result.converted_value.items[i]
                 IN /\ element.valid
                    /\ entry = IF element.converted_value # None
                               THEN element.converted_value ELSE value.items[i]
                    /\ (schema.items[1].t = "type" /\ IsInstance(value.items[i], schema.items[1]))
                          => entry = value.items[i]
                    /\ (schema.items[1].t = "type" /\ ~IsInstance(value.items[i], schema.items[1]))
                          => (convert /\ entry = _try_convert(value.items[i], schema.items[1]))

C25_Witness ==
    /\ ValidSequence /\ convert
    /\ value = PyList(<<PyInt(30), PyStr(<<"J", "o", "h", "n">>)>>)
    /\ schema = PyList(<<PyType("str")>>)
    /\ result.converted_value = PyList(<<PyStr(<<"3", "0">>), PyStr(<<"J", "o", "h", "n">>)>>)

DictCall == op = "validate_dict" /\ value.t = "dict" /\ Returned_

\* the violations that concern the n-th key of the schema
KeyViolations(n) ==
    LET key == schema.pairs[n][1]
    IN IF HasKey(value, key)
       THEN validate_recursive(GetItem(value, key), schema.pairs[n][2], KeyPath(path, key),
                               convert).violations
       ELSE IF require_all_keys
       THEN MissingKeyViolations(value, <<schema.pairs[n]>>, path)
       ELSE <<>>

Concerns(j, n) == result.violations[j] \in Range(KeyViolations(n))

C27_ViolationsInKeyOrder ==
    DictCall
        => \A n1 \in 1..Len(schema.pairs), n2 \in 1..Len(schema.pairs) :
              \A i \in 1..Len(result.violations), j \in 1..Len(result.violations) :
                 (n1 < n2 /\ Concerns(i, n1) /\ Concerns(j, n2)) => i < j

(***************************************************************************)
(* C27 amended: the violations of a validate_dict result are the           *)
(* MISSING_KEY violations of the keys the value lacks, in the schema's key *)
(* order, followed by the violations found below the keys that are         *)
(* present, key by key in the schema's key order.  A violation concerning  *)
(* k1 precedes one concerning a later k2 when both keys are missing or     *)
(* both present; the report of a missing k2 precedes the violations below  *)
(* a present k1.                                                           *)
(***************************************************************************)
RECURSIVE PresentKeyViolations(_)
PresentKeyViolations(n) ==
    IF n > Len(schema.pairs) THEN <<>>
    ELSE (IF HasKey(value, schema.pairs[n][1]) THEN KeyViolations(n) ELSE <<>>)
            \o PresentKeyViolations(n + 1)

RECURSIVE MissingKeyReports(_)
MissingKeyReports(n) ==
    IF n > Len(schema.pairs) THEN <<>>
    ELSE (IF HasKey(value, schema.pairs[n][1]) THEN <<>> ELSE KeyViolations(n))
            \o MissingKeyReports(n + 1)

C27_MissingKeysThenKeyOrder ==
    DictCall
        => /\ result.violations = MissingKeyReports(1) \o PresentKeyViolations(1)
           /\ \A n1 \in 1..Len(schema.pairs), n2 \in 1..Len(schema.pairs) :
                 \A i \in 1..Len(result.violations), j \in 1..Len(result.violations) :
                    (n1 < n2 /\ Concerns(i, n1) /\ Concerns(j, n2)
                        /\ HasKey(value, schema.pairs[n1][1]) = HasKey(value, schema.pairs[n2][1]))
                       => i < j

C27_Witness ==
    /\ DictCall /\ require_all_keys /\ path = "$"
    /\ schema = PersonSchema
    /\ value = PyDict(<<<<K_name, PyInt(30)>>>>)
    /\ Len(result.violations) = 2
    /\ result.violations[1].kind = "missing_key" /\ result.violations[1].path = "$.age"
    /\ result.violations[2].kind = "wrong_type" /\ result.violations[2].path = "$.name"

(***************************************************************************)
(* C28: every ValidationResult returned by validate_type, validate_dict    *)
(* and validate_recursive is valid if and only if its violation list is    *)
(* empty.                                                                  *)
(***************************************************************************)
C28_ValidIffNoViolation ==
    (ValidatorCall /\ Returned_) => (result.valid <=> result.violations = <<>>)

C28_Witness ==
    /\ op = "validate_recursive" /\ Returned_
    /\ schema = PyDict(<<<<K_user, PyDict(<<<<K_name, PyType("int")>>, <<K_age, PyType("int")>>>>)>>>>)
    /\ value.t = "dict" /\ HasKey(value, K_user)
    /\ ~result.valid
    /\ \E j \in 1..Len(result.violations) :
          result.violations[j].path = "$.user.name" /\ result.violations[j].kind = "wrong_type"

(***************************************************************************)
(* C29: a None value is never coerced: validate_type(None, types,          *)
(* convert=True) is valid only when NoneType is among the accepted types,  *)
(* and then has the converted value None; otherwise it fails with exactly  *)
(* one WRONG_TYPE violation whose found is 'None', also for the targets    *)
(* str and bool, whose coercers accept None.                               *)
(***************************************************************************)
NoneWithConversion == op = "validate_type" /\ convert /\ value = None

AcceptsNone(types) == \E k \in 1..Len(types) : types[k].name = "NoneType"

C29_NoneIsNeverCoerced ==
    NoneWithConversion
        => /\ Returned_
           /\ result.converted_value = None
           /\ IF AcceptsNone(NormalizedTypes(schema))
              THEN result.valid /\ result.violations = <<>>
              ELSE /\ ~result.valid
                   /\ Len(result.violations) = 1
                   /\ result.violations[1].kind = "wrong_type"
                   /\ result.violations[1].found = "None"
                   /\ result.violations[1].path = path

C29_Witness ==
    /\ NoneWithConversion
    /\ schema = PyTuple(<<PyType("str"), PyType("bool")>>)
    /\ safe_str_convert(value) = PyStr(<<>>) /\ safe_bool_convert(value) = PyBool(FALSE)
    /\ ~result.valid
    /\ result.violations[1].found = "None"

(***************************************************************************)
(* C30: the converted value of a validate_dict result contains exactly the *)
(* keys that are both declared in the schema and present in the value:     *)
(* keys the schema does not declare are ignored for validity and dropped   *)
(* from the output, at every nesting depth and also without conversion.    *)
(***************************************************************************)
DictKeys(d) == {d.pairs[j][1] : j \in 1..Len(d.pairs)}

\* out holds, at every depth the schema describes, the declared keys that
\* v has and no other
RECURSIVE OnlyDeclaredKeys(_, _, _)
OnlyDeclaredKeys(v, sch, out) ==
    IF sch.t = "dict" /\ v.t = "dict"
    THEN /\ out.t = "dict"
         /\ DictKeys(out) = {k \in SchemaKeys(sch) : HasKey(v, k)}
         /\ \A k \in DictKeys(out) :
               OnlyDeclaredKeys(GetItem(v, k), GetItem(sch, k), GetItem(out, k))
    ELSE IF IsSequenceSchema(sch) /\ v.t \in {"list", "tuple"}
    THEN /\ out.t \in {"list", "tuple"}
         /\ Len(out.items) = Len(v.items)
         /\ \A i \in 1..Len(v.items) : OnlyDeclaredKeys(v.items[i], sch.items[1], out.items[i])
    ELSE TRUE

\* validity does not depend on the keys the schema does not declare
Declared(v, sch) ==
    PyDict(SelectSeq(v.pairs, LAMBDA pair : pair[1] \in SchemaKeys(sch)))

C30_UndeclaredKeysDropped ==
    DictCall
        => /\ OnlyDeclaredKeys(value, schema, result.converted_value)
           /\ result.valid
                 = validate_dict(Declared(value, schema), schema, path, convert,
                                 require_all_keys).valid

\* the same for the results that are valid
C30_ValidOutputHasDeclaredKeys ==
    (DictCall /\ result.valid) => OnlyDeclaredKeys(value, schema, result.converted_value)

=============================================================================
